---------------------------- MODULE Spec2Model ----------------------------
(***************************************************************************)
(* Model of the CBF container decoder (CBFParser/src/ecu.rs): the          *)
(* bit-mask-gated field reads, the block descriptors, communication        *)
(* parameters, interfaces, sub-interfaces, variants and the ECU record     *)
(* that drives them.  The byte source is a sequence of bytes with a shared *)
(* cursor; every decoder is computed on the bytes as the code computes it. *)
(* Beside it, three parts of the application: the PCAN adapter client      *)
(* (commapi/peak_can_api.rs) with the driver answering its calls, the      *)
(* command line tool (cli.rs) and the ODB window (windows/odb.rs).  Each   *)
(* part has its own specification over the variables it owns.              *)
(***************************************************************************)
EXTENDS Integers, Sequences, FiniteSets, TLC

VARIABLES
    mem,      \* the byte source (raf::Raf data), address a is mem[a + 1]
    pos,      \* the shared reader's cursor (raf::Raf pos)
    img,      \* what the file's author laid out in mem (ghost, never read by a decoder)
    header,   \* CFFHeader: size_of_str_pool, cff_header_size
    pc,       \* position of the caller / of ECU::new
    ecu,      \* ECU::new: its arguments, locals and the ECU under construction
    out,      \* outcome of the last stand-alone call
    log,      \* history of the decode steps of ECU::new, in order
    dev,      \* a PeakCanAPI: iface and the socket behind its Arc<RwLock<..>>
    bus,      \* the calls made into the PCAN driver, in order, with their status
    calls,    \* the calls made on the PeakCanAPI, in order, with what they returned
    peer,     \* the clone_box of dev, if one was made: its own iface
    cli,      \* the command line tool: its arguments, where main is, what it printed and started
    odb       \* the ODB window: its ODBHome, the Element its last view built, whose turn it is

vars == <<mem, pos, img, header, pc, ecu, out, log, dev, bus, calls, peer, cli, odb>>

\* the state of the container decoder and the state of the CAN adapter
cbf_vars == <<mem, pos, img, header, pc, ecu, out, log>>
pcan_vars == <<dev, bus, calls>>
app_vars == <<peer, cli, odb>>

(***************************************************************************)
(* Bytes and integers                                                      *)
(***************************************************************************)

\* the k-th byte (k = 0 least significant) of v in two's complement
ByteOf(v, k) == (v \div (256 ^ k)) % 256

\* v as w little-endian bytes
LE(v, w) == [k \in 1..w |-> ByteOf(v, k - 1)]

\* the eight bits of byte b, least significant first
BitsOfByte(b) == [k \in 1..8 |-> (b \div (2 ^ (k - 1))) % 2]

RECURSIVE BitsOfBytes(_)
BitsOfBytes(bs) ==
    IF bs = <<>> THEN <<>> ELSE BitsOfByte(Head(bs)) \o BitsOfBytes(Tail(bs))

\* n copies of x
Rep(x, n) == [k \in 1..n |-> x]

\* `as u64` of an unsigned value given by its little-endian bytes
ZeroExtend64(bs) == BitsOfBytes(bs) \o Rep(0, 64 - 8 * Len(bs))

\* `as u64` of a signed value given by its little-endian bytes
SignExtend64(bs) ==
    LET b == BitsOfBytes(bs)
    IN  b \o Rep(b[Len(b)], 64 - Len(b))

\* u64 << n
Shl64(bits, n) == SubSeq(Rep(0, n) \o bits, 1, 64)

\* u64 | u64
Or64(a, b) == [k \in 1..64 |-> IF a[k] = 1 \/ b[k] = 1 THEN 1 ELSE 0]

\* unsigned value of little-endian bytes (at most 2 bytes here)
UIntOf(bs) == IF Len(bs) = 1 THEN bs[1] ELSE bs[1] + 256 * bs[2]

\* signed value of little-endian bytes (1, 2 or 4 bytes)
SIntOf(bs) ==
    LET n  == Len(bs)
        hi == IF bs[n] >= 128 THEN bs[n] - 256 ELSE bs[n]
    IN  IF n = 1 THEN hi
        ELSE IF n = 2 THEN bs[1] + 256 * hi
        ELSE bs[1] + 256 * bs[2] + 65536 * bs[3] + 16777216 * hi

(***************************************************************************)
(* The byte source: seek, read N bytes, read integers, read a string       *)
(***************************************************************************)

\* whether n bytes can be read at address p
CanRead(m, p, n) == p >= 0 /\ n >= 0 /\ p + n <= Len(m)

\* Raf::read_bytes: n bytes at the cursor, the cursor moved past them; a read
\* past the end is an error and leaves the cursor where it was
read_bytes(m, p, n) ==
    IF CanRead(m, p, n)
    THEN [ok |-> TRUE, v |-> SubSeq(m, p + 1, p + n), pos |-> p + n]
    ELSE [ok |-> FALSE, v |-> <<>>, pos |-> p]

\* Raf::read_i8 / read_i16 / read_i32 (w = 1, 2, 4), little-endian
read_int(m, p, w) ==
    LET r == read_bytes(m, p, w)
    IN  [ok |-> r.ok, v |-> IF r.ok THEN SIntOf(r.v) ELSE 0, pos |-> r.pos]

\* Raf::read_u8 / read_u16 (w = 1, 2), little-endian
read_uint(m, p, w) ==
    LET r == read_bytes(m, p, w)
    IN  [ok |-> r.ok, v |-> IF r.ok THEN UIntOf(r.v) ELSE 0, pos |-> r.pos]

\* the address of the first zero byte at or after p, or -1
RECURSIVE FindNul(_, _)
FindNul(m, p) ==
    IF p < 0 \/ p >= Len(m) THEN -1
    ELSE IF m[p + 1] = 0 THEN p
    ELSE FindNul(m, p + 1)

\* CReader::read_string: the null-terminated text at the cursor
read_string(m, p) ==
    LET z == FindNul(m, p)
    IN  IF z < 0 THEN [ok |-> FALSE, v |-> <<>>, pos |-> p]
        ELSE [ok |-> TRUE, v |-> SubSeq(m, p + 1, z), pos |-> z + 1]

(***************************************************************************)
(* Conditional field decoder: CReader::read_bitflag_i32 and its siblings   *)
(***************************************************************************)

\* Option<T>
None == [some |-> FALSE, v |-> <<>>]
Some(x) == [some |-> TRUE, v |-> x]

\* the lowest unconsumed bit of a mask
MaskBit(mask) == mask[1]

\* the mask with its lowest bit consumed (u64 >> 1)
MaskShift(mask) == Tail(mask) \o <<0>>

\* a conditional read that found its bit set: the outcome r of the plain read,
\* the mask with the bit consumed
Gated(mask, r) == [ok |-> r.ok, v |-> r.v, mask |-> MaskShift(mask), pos |-> r.pos]

\* a conditional read that found its bit clear: the value v, no byte consumed
Skipped(mask, p, v) == [ok |-> TRUE, v |-> v, mask |-> MaskShift(mask), pos |-> p]

read_bitflag_i32(mask, m, p, default) ==
    IF MaskBit(mask) = 0 THEN Skipped(mask, p, default) ELSE Gated(mask, read_int(m, p, 4))

read_bitflag_i16(mask, m, p, default) ==
    IF MaskBit(mask) = 0 THEN Skipped(mask, p, default) ELSE Gated(mask, read_int(m, p, 2))

read_bitflag_i8(mask, m, p, default) ==
    IF MaskBit(mask) = 0 THEN Skipped(mask, p, default) ELSE Gated(mask, read_int(m, p, 1))

read_bitflag_u8(mask, m, p, default) ==
    IF MaskBit(mask) = 0 THEN Skipped(mask, p, default) ELSE Gated(mask, read_uint(m, p, 1))

\* the text at base + the offset read by o; the cursor stays after the offset
StringAt(m, base, o) ==
    IF ~o.ok THEN [ok |-> FALSE, v |-> None, pos |-> o.pos]
    ELSE [ok |-> read_string(m, base + o.v).ok,
          v |-> Some(read_string(m, base + o.v).v), pos |-> o.pos]

\* size bytes at base + the offset read by o; the cursor stays after the offset
DumpAt(m, base, size, o) ==
    IF ~o.ok THEN [ok |-> FALSE, v |-> None, pos |-> o.pos]
    ELSE [ok |-> read_bytes(m, base + o.v, size).ok,
          v |-> Some(read_bytes(m, base + o.v, size).v), pos |-> o.pos]

\* a string field: a signed 32-bit offset at the cursor, the text at base + offset
read_bitflag_string(mask, m, p, base) ==
    IF MaskBit(mask) = 0 THEN Skipped(mask, p, None)
    ELSE Gated(mask, StringAt(m, base, read_int(m, p, 4)))

\* a byte-block field: a signed 32-bit offset at the cursor, size bytes at base + offset
read_bitflag_dump(mask, m, p, size, base) ==
    IF MaskBit(mask) = 0 THEN Skipped(mask, p, None)
    ELSE Gated(mask, DumpAt(m, base, size, read_int(m, p, 4)))

\* one field of a record layout: a scalar (kind, default), a string, or a byte
\* block whose size is fixed or is an earlier field of the record
I32(d) == [k |-> "i32", d |-> d, sz |-> 0]
I16(d) == [k |-> "i16", d |-> d, sz |-> 0]
I8(d) == [k |-> "i8", d |-> d, sz |-> 0]
U8(d) == [k |-> "u8", d |-> d, sz |-> 0]
Str == [k |-> "string", d |-> 0, sz |-> 0]
Dump(n) == [k |-> "dump", d |-> 0, sz |-> n]
DumpOf(i) == [k |-> "dump_of", d |-> 0, sz |-> i]

\* the conditional read of field f; vals are the fields read before it
ReadField(mask, m, p, base, f, vals) ==
    CASE f.k = "string" -> read_bitflag_string(mask, m, p, base)
      [] f.k = "dump" -> read_bitflag_dump(mask, m, p, f.sz, base)
      [] f.k = "dump_of" -> read_bitflag_dump(mask, m, p, vals[f.sz], base)
      [] f.k = "i32" -> read_bitflag_i32(mask, m, p, f.d)
      [] f.k = "i16" -> read_bitflag_i16(mask, m, p, f.d)
      [] f.k = "i8" -> read_bitflag_i8(mask, m, p, f.d)
      [] OTHER -> read_bitflag_u8(mask, m, p, f.d)

\* outcome of a decoder: a value and the cursor it leaves, or a panic
Ok(v, p) == [ok |-> TRUE, err |-> "", v |-> v, pos |-> p]
Panic(msg, p) == [ok |-> FALSE, err |-> msg, v |-> <<>>, pos |-> p]

(***************************************************************************)
(* Sequencing: what a decoder threads through its reads                    *)
(***************************************************************************)

\* the values read so far, the mask, the cursor, and the panic that ended the
\* decoder if one did
Threaded(mask, p) ==
    [ok |-> TRUE, err |-> "", vals |-> <<>>, mask |-> mask, pos |-> p]

NoMask == Rep(0, 64)

Last(s) == s[Len(s)]
Front(s) == SubSeq(s, 1, Len(s) - 1)

\* st ended by the panic msg
Failed(st, msg) == [st EXCEPT !.ok = FALSE, !.err = msg]

\* reader.seek(a)
Seek(st, a) == IF ~st.ok THEN st ELSE [st EXCEPT !.pos = a]

\* st after the plain read r: its value kept; a failed read is the panic msg
Took(st, r, msg) ==
    IF ~st.ok THEN st
    ELSE IF ~r.ok THEN [st EXCEPT !.ok = FALSE, !.err = msg, !.pos = r.pos]
    ELSE [st EXCEPT !.vals = Append(@, r.v), !.pos = r.pos]

\* st after the conditional read r: its value kept, the mask as r leaves it
TookField(st, r) ==
    IF ~st.ok THEN st
    ELSE IF ~r.ok
         THEN [st EXCEPT !.ok = FALSE, !.err = "read past end", !.mask = r.mask,
                         !.pos = r.pos]
    ELSE [st EXCEPT !.vals = Append(@, r.v), !.mask = r.mask, !.pos = r.pos]

\* st after the decoder call r, which was given the last value of st
TookCall(st, r) ==
    IF ~st.ok THEN st
    ELSE IF ~r.ok THEN [st EXCEPT !.ok = FALSE, !.err = r.err, !.pos = r.pos]
    ELSE [st EXCEPT !.vals = Append(Front(@), r.v), !.pos = r.pos]

\* read_bytes(n).expect(msg) / read_i32().unwrap() and the like, at the cursor
TakeBytes(st, m, n, msg) ==
    IF ~st.ok THEN st ELSE Took(st, read_bytes(m, st.pos, n), msg)

TakeInt(st, m, w) ==
    IF ~st.ok THEN st ELSE Took(st, read_int(m, st.pos, w), "unwrap on Err")

TakeUInt(st, m, w) ==
    IF ~st.ok THEN st ELSE Took(st, read_uint(m, st.pos, w), "unwrap on Err")

\* the mask a decoder starts from: the bytes just read, `as u64`
MaskFromUnsigned(st) ==
    IF ~st.ok THEN st ELSE [st EXCEPT !.mask = ZeroExtend64(Last(st.vals)), !.vals = Front(@)]

MaskFromSigned(st) ==
    IF ~st.ok THEN st ELSE [st EXCEPT !.mask = SignExtend64(Last(st.vals)), !.vals = Front(@)]

\* one conditional field read at the cursor
Field(st, m, base, f) ==
    IF ~st.ok THEN st
    ELSE TookField(st, ReadField(st.mask, m, st.pos, base, f, st.vals))

\* the fields fs[i..] read in order; a failed read ends the record
RECURSIVE ReadFields(_, _, _, _, _)
ReadFields(st, m, base, fs, i) ==
    IF i > Len(fs) \/ ~st.ok THEN st
    ELSE ReadFields(Field(st, m, base, fs[i]), m, base, fs, i + 1)

(***************************************************************************)
(* block                                                                   *)
(***************************************************************************)

BlockFields == <<I32(0), I32(0), I32(0), I32(0)>>

\* a faulty block value: the offset field is stored as read, without the bias
block_of_unbiased(st, offset) ==
    IF ~st.ok THEN [ok |-> FALSE, v |-> <<>>, mask |-> st.mask, pos |-> st.pos]
    ELSE [ok |-> TRUE,
          v |-> [block_offset |-> st.vals[1],
                 entry_count |-> st.vals[2],
                 entry_size |-> st.vals[3],
                 block_size |-> st.vals[4]],
          mask |-> st.mask, pos |-> st.pos]

\* the block value of block::new from its four fields: the first biased by offset
block_of(st, offset) ==
    IF ~st.ok THEN [ok |-> FALSE, v |-> <<>>, mask |-> st.mask, pos |-> st.pos]
    ELSE [ok |-> TRUE,
          v |-> [block_offset |-> st.vals[1] + offset,
                 entry_count |-> st.vals[2],
                 entry_size |-> st.vals[3],
                 block_size |-> st.vals[4]],
          mask |-> st.mask, pos |-> st.pos]

\* a faulty block::new: it works on its own copy of the mask, the caller's
\* mask keeps the four bits
block_new_mask_by_value(m, p, mask, offset) ==
    [block_of(ReadFields(Threaded(mask, p), m, 0, BlockFields, 1), offset)
        EXCEPT !.mask = mask]

\* block::new: four conditional i32 fields read with the caller's mask
block_new(m, p, mask, offset) ==
    block_of(ReadFields(Threaded(mask, p), m, 0, BlockFields, 1), offset)

(***************************************************************************)
(* ParamName                                                               *)
(***************************************************************************)

\* the texts ParamName::from_string matches, by the variant each gives
ParamText ==
    [
      CP_BAUDRATE |-> <<67,80,95,66,65,85,68,82,65,84,69>>,
      CP_GLOBAL_REQUEST_CANIDENTIFIER |-> <<67,80,95,71,76,79,66,65,76,95,82,69,81,85,69,83,84,95,67,65,78,73,68,69,78,84,73,70,73,69,82>>,
      CP_FUNCTIONAL_REQUEST_CANIDENTIFIER |-> <<67,80,95,70,85,78,67,84,73,79,78,65,76,95,82,69,81,85,69,83,84,95,67,65,78,73,68,69,78,84,73,70,73,69,82>>,
      CP_REQUEST_CANIDENTIFIER |-> <<67,80,95,82,69,81,85,69,83,84,95,67,65,78,73,68,69,78,84,73,70,73,69,82>>,
      CP_RESPONSE_CANIDENTIFIER |-> <<67,80,95,82,69,83,80,79,78,83,69,95,67,65,78,73,68,69,78,84,73,70,73,69,82>>,
      CP_PARTNUMBERID |-> <<67,80,95,80,65,82,84,78,85,77,66,69,82,73,68>>,
      CP_PARTBLOCK |-> <<67,80,95,80,65,82,84,66,76,79,67,75>>,
      CP_HWVERSIONID |-> <<67,80,95,72,87,86,69,82,83,73,79,78,73,68>>,
      CP_SWVERSIONID |-> <<67,80,95,83,87,86,69,82,83,73,79,78,73,68>>,
      CP_SWVERSIONBLOCK |-> <<67,80,95,83,87,86,69,82,83,73,79,78,66,76,79,67,75>>,
      CP_SUPPLIERID |-> <<67,80,95,83,85,80,80,76,73,69,82,73,68>>,
      CP_SWSUPPLIERBLOCK |-> <<67,80,95,83,87,83,85,80,80,76,73,69,82,66,76,79,67,75>>,
      CP_ADDRESSMODE |-> <<67,80,95,65,68,68,82,69,83,83,77,79,68,69>>,
      CP_ADDRESSEXTENSION |-> <<67,80,95,65,68,68,82,69,83,83,69,88,84,69,78,83,73,79,78>>,
      CP_ROE_RESPONSE_CANIDENTIFIER |-> <<67,80,95,82,79,69,95,82,69,83,80,79,78,83,69,95,67,65,78,73,68,69,78,84,73,70,73,69,82>>,
      CP_USE_TIMING_RECEIVED_FROM_ECU |-> <<67,80,95,85,83,69,95,84,73,77,73,78,71,95,82,69,67,69,73,86,69,68,95,70,82,79,77,95,69,67,85>>,
      CP_STMIN_SUG |-> <<67,80,95,83,84,77,73,78,95,83,85,71>>,
      CP_BLOCKSIZE_SUG |-> <<67,80,95,66,76,79,67,75,83,73,90,69,95,83,85,71>>,
      CP_P2_TIMEOUT |-> <<67,80,95,80,50,95,84,73,77,69,79,85,84>>,
      CP_S3_TP_PHYS_TIMER |-> <<67,80,95,83,51,95,84,80,95,80,72,89,83,95,84,73,77,69,82>>,
      CP_S3_TP_FUNC_TIMER |-> <<67,80,95,83,51,95,84,80,95,70,85,78,67,95,84,73,77,69,82>>,
      CP_BR_SUG |-> <<67,80,95,66,82,95,83,85,71>>,
      CP_CAN_TRANSMIT |-> <<67,80,95,67,65,78,95,84,82,65,78,83,77,73,84>>,
      CP_BS_MAX |-> <<67,80,95,66,83,95,77,65,88>>,
      CP_CS_MAX |-> <<67,80,95,67,83,95,77,65,88>>,
      CPI_ROUTINECOUNTER |-> <<67,80,73,95,82,79,85,84,73,78,69,67,79,85,78,84,69,82>>,
      CP_REQREPCOUNT |-> <<67,80,95,82,69,81,82,69,80,67,79,85,78,84>>,
      CP_P2_EXT_TIMEOUT_7F_78 |-> <<67,80,95,80,50,95,69,88,84,95,84,73,77,69,79,85,84,95,55,70,95,55,56>>,
      CP_P2_EXT_TIMEOUT_7F_21 |-> <<67,80,95,80,50,95,69,88,84,95,84,73,77,69,79,85,84,95,55,70,95,50,49>>
    ]

\* a faulty from_string: a text it does not know is taken for the first variant
from_string_defaulting(txt) ==
    IF \E n \in DOMAIN ParamText : ParamText[n] = txt
    THEN CHOOSE n \in DOMAIN ParamText : ParamText[n] = txt
    ELSE "CP_BAUDRATE"

\* ParamName::from_string
from_string(txt) ==
    IF \E n \in DOMAIN ParamText : ParamText[n] = txt
    THEN CHOOSE n \in DOMAIN ParamText : ParamText[n] = txt
    ELSE "UNKNOWN"

\* the text `{:?}` gives for each variant: its identifier in the enum
ParamIdent ==
    [
      CP_BAUDRATE |-> <<67,80,95,66,65,85,68,82,65,84,69>>,
      CP_GLOBAL_REQUEST_CANIDENTIFIER |-> <<67,80,95,71,76,79,66,65,76,95,82,69,81,85,69,83,84,95,67,65,78,73,68,69,78,84,73,70,73,69,82>>,
      CP_FUNCTIONAL_REQUEST_CANIDENTIFIER |-> <<67,80,95,70,85,78,67,84,73,79,78,65,76,95,82,69,81,85,69,83,84,95,67,65,78,73,68,69,78,84,73,70,73,69,82>>,
      CP_REQUEST_CANIDENTIFIER |-> <<67,80,95,82,69,81,85,69,83,84,95,67,65,78,73,68,69,78,84,73,70,73,69,82>>,
      CP_RESPONSE_CANIDENTIFIER |-> <<67,80,95,82,69,83,80,79,78,83,69,95,67,65,78,73,68,69,78,84,73,70,73,69,82>>,
      CP_PARTNUMBERID |-> <<67,80,95,80,65,82,84,78,85,77,66,69,82,73,68>>,
      CP_PARTBLOCK |-> <<67,80,95,80,65,82,84,66,76,79,67,75>>,
      CP_HWVERSIONID |-> <<67,80,95,72,87,86,69,82,83,73,79,78,73,68>>,
      CP_SWVERSIONID |-> <<67,80,95,83,87,86,69,82,83,73,79,78,73,68>>,
      CP_SWVERSIONBLOCK |-> <<67,80,95,83,87,86,69,82,83,73,79,78,66,76,79,67,75>>,
      CP_SUPPLIERID |-> <<67,80,95,83,85,80,80,76,73,69,82,73,68>>,
      CP_SWSUPPLIERBLOCK |-> <<67,80,95,83,87,83,85,80,80,76,73,69,82,66,76,79,67,75>>,
      CP_ADDRESSMODE |-> <<67,80,95,65,68,68,82,69,83,83,77,79,68,69>>,
      CP_ADDRESSEXTENSION |-> <<67,80,95,65,68,68,82,69,83,83,69,88,84,69,78,83,73,79,78>>,
      CP_ROE_RESPONSE_CANIDENTIFIER |-> <<67,80,95,82,79,69,95,82,69,83,80,79,78,83,69,95,67,65,78,73,68,69,78,84,73,70,73,69,82>>,
      CP_USE_TIMING_RECEIVED_FROM_ECU |-> <<67,80,95,85,83,69,95,84,73,77,73,78,71,95,82,69,67,69,73,86,69,68,95,70,82,79,77,95,69,67,85>>,
      CP_STMIN_SUG |-> <<67,80,95,83,84,77,73,78,95,83,85,71>>,
      CP_BLOCKSIZE_SUG |-> <<67,80,95,66,76,79,67,75,83,73,90,69,95,83,85,71>>,
      CP_P2_TIMEOUT |-> <<67,80,95,80,50,95,84,73,77,69,79,85,84>>,
      CP_S3_TP_PHYS_TIMER |-> <<67,80,95,83,51,95,84,80,95,80,72,89,83,95,84,73,77,69,82>>,
      CP_S3_TP_FUNC_TIMER |-> <<67,80,95,83,51,95,84,80,95,70,85,78,67,95,84,73,77,69,82>>,
      CP_BR_SUG |-> <<67,80,95,66,82,95,83,85,71>>,
      CP_CAN_TRANSMIT |-> <<67,80,95,67,65,78,95,84,82,65,78,83,77,73,84>>,
      CP_BS_MAX |-> <<67,80,95,66,83,95,77,65,88>>,
      CP_CS_MAX |-> <<67,80,95,67,83,95,77,65,88>>,
      CPI_ROUTINECOUNTER |-> <<67,80,73,95,82,79,85,84,73,78,69,67,79,85,78,84,69,82>>,
      CP_REQREPCOUNT |-> <<67,80,95,82,69,81,82,69,80,67,79,85,78,84>>,
      CP_P2_EXT_TIMEOUT_7F_78 |-> <<67,80,95,80,50,95,69,88,84,95,84,73,77,69,79,85,84,95,55,70,95,55,56>>,
      CP_P2_EXT_TIMEOUT_7F_21 |-> <<67,80,95,80,50,95,69,88,84,95,84,73,77,69,79,85,84,95,55,70,95,50,49>>,
      UNKNOWN |-> <<85,78,75,78,79,87,78>>
    ]

\* a faulty Display: the variant is written behind its type, ParamName::X
to_string_qualified(name) ==
    <<80, 97, 114, 97, 109, 78, 97, 109, 101, 58, 58>> \o ParamIdent[name]

\* ParamName::to_string: Display writes what Debug writes
to_string(name) == ParamIdent[name]

(***************************************************************************)
(* ComParameter                                                            *)
(***************************************************************************)

ComParameterFields ==
    <<I16(0), I16(0), I16(0), I16(0), I32(0), I16(0), I32(0), DumpOf(7)>>

\* (x as i32) << n for a byte x
ShlI32(x, n) ==
    LET k == 2 ^ (32 - n)
    IN  (((x + k \div 2) % k) - k \div 2) * (2 ^ n)

\* i32 | i32 of operands that occupy disjoint bits
Or32(a, b) == a + b

\* a faulty value: the dump taken most significant byte first
DumpValueBigEndian(dump) ==
    Or32(Or32(Or32(ShlI32(dump[1], 24), ShlI32(dump[2], 16)), ShlI32(dump[3], 8)),
         dump[4])

\* the value ComParameter::new forms from a 4-byte dump
DumpValue(dump) ==
    Or32(Or32(Or32(ShlI32(dump[4], 24), ShlI32(dump[3], 16)), ShlI32(dump[2], 8)),
         dump[1])

\* whether `i as usize` indexes a Vec of length n
IndexOk(i, n) == 0 <= i /\ i < n

\* a faulty value: dumps of 1 and 2 bytes are accepted as narrower integers
com_param_value_any_width(dump_size, dump) ==
    IF dump_size = 4 THEN Some(DumpValue(dump))
    ELSE IF dump_size \in {1, 2} THEN Some(SIntOf(dump))
    ELSE None

\* a faulty name lookup: an index outside the list yields an empty name
com_param_name_or_empty(parent_iface, param_index) ==
    IF IndexOk(param_index, Len(parent_iface.com_parameters))
    THEN Some(parent_iface.com_parameters[param_index + 1])
    ELSE Some(<<>>)

\* lines 139-145: the value of a dump whose size is 4; any other size panics
com_param_value_of(dump_size, dump) ==
    IF dump_size = 4 THEN Some(DumpValue(dump)) ELSE None

\* line 146: parent_iface.com_parameters[param_index as usize], which panics
\* when the index is outside the list
com_param_name_of(parent_iface, param_index) ==
    IF IndexOk(param_index, Len(parent_iface.com_parameters))
    THEN Some(parent_iface.com_parameters[param_index + 1])
    ELSE None

\* ComParameter::new after its reads: the dump is unwrapped, the value formed
\* from it, the name taken from the parent
ComParameter_of(st, base_addr, parent_iface) ==
    IF ~st.ok THEN Panic(st.err, st.pos)
    ELSE IF ~st.vals[8].some THEN Panic("unwrap on None", st.pos)
    ELSE IF ~com_param_value_of(st.vals[7], st.vals[8].v).some
         THEN Panic("Parent has no matching key", st.pos)
    ELSE IF ~com_param_name_of(parent_iface, st.vals[1]).some
         THEN Panic("index out of bounds", st.pos)
    ELSE Ok([param_index |-> st.vals[1],
             unk3 |-> st.vals[2],
             sub_iface_index |-> st.vals[3],
             unk5 |-> st.vals[4],
             unk_ctf |-> st.vals[5],
             phrase |-> st.vals[6],
             dump_size |-> st.vals[7],
             dump |-> st.vals[8].v,
             com_param_value |-> com_param_value_of(st.vals[7], st.vals[8].v).v,
             com_param_name |-> com_param_name_of(parent_iface, st.vals[1]).v,
             base_addr |-> base_addr], st.pos)

\* ComParameter::new
ComParameter_new(m, base_addr, parent_iface) ==
    ComParameter_of(
        ReadFields(
            MaskFromUnsigned(
                TakeBytes(Threaded(NoMask, base_addr), m, 2, "Error reading bitflags")),
            m, base_addr, ComParameterFields, 1),
        base_addr, parent_iface)

(***************************************************************************)
(* ECUInterfaceSubType                                                     *)
(***************************************************************************)

ECUInterfaceSubTypeFields ==
    <<Str, I32(-1), I32(-1), I16(0), I16(0), I32(0), I32(0), I32(0),
      U8(0), U8(0), U8(0)>>

\* the struct literal of ECUInterfaceSubType::new: the name is unwrapped, the
\* parameter list is empty
ECUInterfaceSubType_of(st, base_addr, index) ==
    IF ~st.ok THEN Panic(st.err, st.pos)
    ELSE IF ~st.vals[1].some THEN Panic("unwrap on None", st.pos)
    ELSE Ok([index |-> index,
             base_addr |-> base_addr,
             name |-> st.vals[1].v,
             name_ctf |-> st.vals[2],
             desc_ctf |-> st.vals[3],
             unk3 |-> st.vals[4],
             unk4 |-> st.vals[5],
             unk5 |-> st.vals[6],
             unk6 |-> st.vals[7],
             unk7 |-> st.vals[8],
             unk8 |-> st.vals[9],
             unk9 |-> st.vals[10],
             unk10 |-> st.vals[11],
             com_params |-> <<>>], st.pos)

\* ECUInterfaceSubType::new
ECUInterfaceSubType_new(m, base_addr, index) ==
    ECUInterfaceSubType_of(
        ReadFields(
            MaskFromUnsigned(
                TakeBytes(Threaded(NoMask, base_addr), m, 4, "Error reading iface bitflag")),
            m, base_addr, ECUInterfaceSubTypeFields, 1),
        base_addr, index)

\* a faulty scan: the last ComParameter of that name is the one found
get_com_param_last(self, name) ==
    IF \E i \in 1..Len(self.com_params) : self.com_params[i].com_param_name = name
    THEN Some(self.com_params[
             CHOOSE i \in 1..Len(self.com_params) :
                 /\ self.com_params[i].com_param_name = name
                 /\ \A j \in (i + 1)..Len(self.com_params) :
                        self.com_params[j].com_param_name # name])
    ELSE None

\* ECUInterfaceSubType::get_com_param: iter().find, the first ComParameter
\* whose name is the text
get_com_param(self, name) ==
    IF \E i \in 1..Len(self.com_params) : self.com_params[i].com_param_name = name
    THEN Some(self.com_params[
             CHOOSE i \in 1..Len(self.com_params) :
                 /\ self.com_params[i].com_param_name = name
                 /\ \A j \in 1..(i - 1) : self.com_params[j].com_param_name # name])
    ELSE None

\* Option<i32>::None
NoValue == [some |-> FALSE, v |-> 0]

\* Option::map(|x| x.com_param_value)
value_of_param(o) == IF o.some THEN Some(o.v.com_param_value) ELSE NoValue

\* ECUInterfaceSubType::get_com_param_value
get_com_param_value(self, name) == value_of_param(get_com_param(self, to_string(name)))

\* the match of get_com_param_value_res: what it returns and what it leaves
\* in *result
result_of_param(o) ==
    IF o.some THEN [ret |-> TRUE, result |-> o.v.com_param_value]
    ELSE [ret |-> FALSE, result |-> 0]

\* ECUInterfaceSubType::get_com_param_value_res
get_com_param_value_res(self, name, result) ==
    result_of_param(get_com_param(self, to_string(name)))

(***************************************************************************)
(* ECUInterface                                                            *)
(***************************************************************************)

ECUInterfaceFields ==
    <<Str, I32(-1), I32(-1), Str, I32(0), I32(0), I32(0), I32(0)>>

\* a faulty pointer: it is followed from the start of the file, not from the
\* name table
NameAtFilePointer(st, m, foffset) ==
    IF ~st.ok THEN st
    ELSE Took([st EXCEPT !.vals = Front(@)], read_string(m, Last(st.vals)),
              "read past end")

\* the text a name-table pointer leads to: the pointer is the last value read,
\* the text at foffset + pointer takes its place
NameAtPointer(st, m, foffset) ==
    IF ~st.ok THEN st
    ELSE Took([st EXCEPT !.vals = Front(@)], read_string(m, Last(st.vals) + foffset),
              "read past end")

\* the name table of an interface, read after its 8 fields (count is field 6,
\* the table's offset field 7): for each index from i below count, the pointer
\* at foffset + 4 * index, then the text at foffset + pointer
RECURSIVE read_com_parameters(_, _, _, _)
read_com_parameters(st, m, base_addr, i) ==
    IF ~st.ok THEN st
    ELSE IF i >= st.vals[6] THEN st
    ELSE read_com_parameters(
             NameAtPointer(
                 TakeInt(Seek(st, st.vals[7] + base_addr + i * 4), m, 4),
                 m, st.vals[7] + base_addr),
             m, base_addr, i + 1)

\* the struct literal of ECUInterface::new
ECUInterface_of(st, base_addr) ==
    IF ~st.ok THEN Panic(st.err, st.pos)
    ELSE Ok([name |-> st.vals[1],
             name_ctf |-> st.vals[2],
             desc_ctf |-> st.vals[3],
             version |-> st.vals[4],
             com_param_count |-> st.vals[6],
             com_param_list_offset |-> st.vals[7],
             unk6 |-> st.vals[8],
             com_parameters |-> SubSeq(st.vals, 9, Len(st.vals)),
             base_addr |-> base_addr], st.pos)

\* ECUInterface::new
ECUInterface_new(m, base_addr) ==
    ECUInterface_of(
        read_com_parameters(
            ReadFields(
                MaskFromSigned(
                    TakeBytes(Threaded(NoMask, base_addr), m, 4, "Error reading ECU Bitflag")),
                m, base_addr, ECUInterfaceFields, 1),
            m, base_addr, 0),
        base_addr)

(***************************************************************************)
(* ECUVarient                                                              *)
(***************************************************************************)

ECUVarientFields ==
    <<Str, I32(-1), I32(-1), Str, Str, I32(0),
      I32(0), I32(0), I32(0), I32(0), I32(0), I32(0), I32(0), I32(0), I32(0),
      I32(0), I32(0), I32(0), I32(0), I32(0), I32(0), I32(0), I32(0), I32(0),
      Str, I8(0)>>

\* (0..count).map(|i| varreader.read_i32().unwrap()).collect(): the values from
\* index i below count, read one after the other at the cursor
RECURSIVE read_i32_table(_, _, _, _)
read_i32_table(st, m, count, i) ==
    IF ~st.ok \/ i >= count THEN st
    ELSE read_i32_table(TakeInt(st, m, 4), m, count, i + 1)

\* the last n values of st collected into one list
Collected(st, n) ==
    IF ~st.ok THEN st
    ELSE [st EXCEPT !.vals = Append(SubSeq(@, 1, Len(@) - n),
                                    SubSeq(@, Len(@) - n + 1, Len(@)))]

\* the two pointer tables of ECUVarient::new, read after its 26 fields: both
\* have VCDomainsCount (field 23) entries, the first from VCDomainsOffset
\* (field 24), the second from diag_services_offset (field 16)
ECUVarient_tables(st, vb, n) ==
    IF ~st.ok THEN st
    ELSE Collected(
             read_i32_table(
                 Seek(Collected(read_i32_table(Seek(st, st.vals[24]), vb, st.vals[23], 0), n),
                      st.vals[16]),
                 vb, st.vals[23], 0),
             n)

\* the number of entries (0..count) yields
RangeLen(count) == IF count < 0 THEN 0 ELSE count

\* the tables of a variant whose fields are read
ECUVarient_counted(st, vb) ==
    IF ~st.ok THEN st ELSE ECUVarient_tables(st, vb, RangeLen(st.vals[23]))

\* `let skip = varreader.read_i32().unwrap()`: a word read and not used
TakeSkip(st, m) ==
    IF ~st.ok THEN st
    ELSE IF ~read_int(m, st.pos, 4).ok THEN Failed(st, "unwrap on Err")
    ELSE Seek(st, read_int(m, st.pos, 4).pos)

\* the reads ECUVarient::new makes on the copy vb of the record's bytes: the
\* mask, a skipped word, the 26 fields and the two tables
ECUVarient_read(vb) ==
    ECUVarient_counted(
        ReadFields(
            TakeSkip(MaskFromUnsigned(TakeBytes(Threaded(NoMask, 0), vb, 4, "unwrap on Err")),
                     vb),
            vb, 0, ECUVarientFields, 1),
        vb)

\* ECUVarient::new after the copy is made; p is where the shared reader is left
ECUVarient_of(st, base_addr, p) ==
    IF ~st.ok THEN Panic(st.err, p)
    ELSE Ok([name |-> st.vals[1],
             name_ctf |-> st.vals[2],
             desc_ctf |-> st.vals[3],
             unk_str1 |-> st.vals[4],
             unk_str2 |-> st.vals[5],
             unk1 |-> st.vals[6],
             matching_pattern_count |-> st.vals[7],
             matching_pattern_offset |-> st.vals[8],
             subsection_b_count |-> st.vals[9],
             subsection_b_offset |-> st.vals[10],
             com_param_count |-> st.vals[11],
             com_param_offset |-> st.vals[12],
             subsection_d_count |-> st.vals[13],
             subsection_d_offset |-> st.vals[14],
             diag_services_count |-> st.vals[15],
             diag_services_offset |-> st.vals[16],
             subsection_f_count |-> st.vals[17],
             subsection_f_offset |-> st.vals[18],
             subsection_g_count |-> st.vals[19],
             subsection_g_offset |-> st.vals[20],
             subsection_h_count |-> st.vals[21],
             subsection_h_offset |-> st.vals[22],
             VCDomainsCount |-> st.vals[23],
             VCDomainsOffset |-> st.vals[24],
             negative_resp_name |-> IF st.vals[25].some THEN st.vals[25].v ELSE <<>>,
             unk_byte |-> st.vals[26],
             vc_domain_pool_offsets |-> st.vals[27],
             diag_services_pool_offsets |-> st.vals[28],
             vc_domains |-> <<>>,
             varient_patterns |-> <<>>,
             diag_services |-> <<>>,
             base_addr |-> base_addr], p)

\* ECUVarient::new from the outcome of its read of the record's bytes.
\* zeroed_ok: whether the build lets std::mem::zeroed() make an ECUVarient,
\* which holds Strings and Vecs
ECUVarient_from(varient_bytes, base_addr, zeroed_ok) ==
    IF ~varient_bytes.ok
    THEN Panic("Error reading ECU Varient bytes", varient_bytes.pos)
    ELSE IF ~zeroed_ok THEN Panic("attempted to zero-initialize", varient_bytes.pos)
    ELSE ECUVarient_of(ECUVarient_read(varient_bytes.v), base_addr, varient_bytes.pos)

\* a variant built from reads of the shared reader, the cursor where they end
ECUVarient_of_shared(st, base_addr) == ECUVarient_of(st, base_addr, st.pos)

\* a faulty ECUVarient::new: no copy is made, the record is decoded with the
\* shared reader from base_addr on, its relative offsets taken as file offsets
ECUVarient_new_shared(m, base_addr, block_size, zeroed_ok) ==
    IF ~zeroed_ok THEN Panic("attempted to zero-initialize", base_addr)
    ELSE ECUVarient_of_shared(
             ECUVarient_counted(
                 ReadFields(
                     TakeSkip(MaskFromUnsigned(TakeBytes(Threaded(NoMask, base_addr), m, 4,
                                                         "unwrap on Err")),
                              m),
                     m, 0, ECUVarientFields, 1),
                 m),
             base_addr)

\* ECUVarient::new: the record is decoded from a copy of its own bytes, the
\* shared reader only reads that copy
ECUVarient_new(m, base_addr, block_size, zeroed_ok) ==
    ECUVarient_from(read_bytes(m, base_addr, block_size), base_addr, zeroed_ok)

(***************************************************************************)
(* ECU                                                                     *)
(***************************************************************************)

\* crate::cxf::STUB_HEADER_SIZE; its defining line is outside these sources and
\* the model takes a small stand-in for it
STUB_HEADER_SIZE == 16

ECUIdentityFields ==
    <<Str, I32(-1), I32(-1), Str, I32(0), I32(0), I32(0), I32(0), Str, Str, Str>>

ECUFlagFields == <<I16(0), I16(0), I16(0), I32(0), I16(0), I32(0)>>

\* the ECU's data-section base
data_offset_of(hdr) ==
    hdr.size_of_str_pool + STUB_HEADER_SIZE + hdr.cff_header_size + 4

\* ecu_bitflags | ecu_bitflags_ext << 32, of the u32 and the i16 just read
MaskFromECU(st) ==
    IF ~st.ok THEN st
    ELSE [st EXCEPT !.mask = Or64(ZeroExtend64(st.vals[1]),
                                  Shl64(SignExtend64(st.vals[2]), 32)),
                    !.vals = <<>>]

\* println!("Skip {:?}", reader.read_i32()): a word read, its outcome printed
\* and dropped; whether it was read is kept as the first value
PrintSkip(st, m) ==
    IF ~st.ok THEN st
    ELSE [st EXCEPT !.vals = Append(@, read_int(m, st.pos, 4).ok),
                    !.pos = read_int(m, st.pos, 4).pos]

\* n consecutive block::new calls
RECURSIVE read_blocks(_, _, _, _)
read_blocks(st, m, offset, n) ==
    IF n = 0 \/ ~st.ok THEN st
    ELSE read_blocks(TookField(st, block_new(m, st.pos, st.mask, offset)), m, offset, n - 1)

\* the locals of ECU::new once its header is read
ECU_locals(st, hdr) ==
    IF ~st.ok THEN Panic(st.err, st.pos)
    ELSE Ok([skip_ok |-> st.vals[1],
             name |-> st.vals[2],
             ecuname_ctf |-> st.vals[3],
             ecudesc_ctf |-> st.vals[4],
             xml_version |-> st.vals[5],
             iface_blockcount |-> st.vals[6],
             iface_tableoffset |-> st.vals[7],
             subiface_count |-> st.vals[8],
             subiface_offset |-> st.vals[9],
             ecu_classname |-> st.vals[10],
             unk7 |-> st.vals[11],
             unk8 |-> st.vals[12],
             data_offset |-> data_offset_of(hdr),
             ign_required |-> st.vals[13],
             unk2 |-> st.vals[14],
             unk_blockcount |-> st.vals[15],
             unk_blockoffset |-> st.vals[16],
             ecu_sgml_src |-> st.vals[17],
             unk6_rel_offset |-> st.vals[18],
             ecuvarient_block |-> st.vals[19],
             diagjob_block |-> st.vals[20],
             dtc_block |-> st.vals[21],
             vc_domain_block |-> st.vals[22],
             env_block |-> st.vals[23],
             pres_block |-> st.vals[24],
             info_block |-> st.vals[25],
             unk_block |-> st.vals[26],
             unk39 |-> st.vals[27]], st.pos)

\* ECU::new up to its last header field: the mask is read at the cursor as the
\* caller left it (p), then the skipped word, the 11 identity fields, the 6
\* flags, the 8 blocks and unk39
ECU_header(m, p, base_addr, hdr) ==
    ECU_locals(
        Field(
            read_blocks(
                ReadFields(
                    ReadFields(
                        PrintSkip(
                            MaskFromECU(
                                TakeBytes(
                                    TakeBytes(Threaded(NoMask, p), m, 4,
                                              "Error reading ECU Bitflag"),
                                    m, 2, "Error reading ECU Ext Bitflag")),
                            m),
                        m, base_addr, ECUIdentityFields, 1),
                    m, base_addr, ECUFlagFields, 1),
                m, data_offset_of(hdr), 8),
            m, base_addr, I32(0)),
        hdr)

\* whether index i is below `count as usize`
BelowUsize(i, count) == count < 0 \/ i < count

\* ECUInterface::new at the table's address plus the offset just read
ecu_interface_at(st, m, iface_table_addr) ==
    IF ~st.ok THEN st
    ELSE TookCall(st, ECUInterface_new(m, iface_table_addr + Last(st.vals)))

\* ECUInterfaceSubType::new at the table's address plus the offset just read
ecu_subinterface_at(st, m, ct_table_addr, buf_index) ==
    IF ~st.ok THEN st
    ELSE TookCall(st, ECUInterfaceSubType_new(m, ct_table_addr + Last(st.vals), buf_index))

\* the interface loop of ECU::new from index i: the offset at table entry i is
\* read, the interface at table + offset decoded
RECURSIVE ecu_interfaces(_, _, _, _, _)
ecu_interfaces(st, m, iface_table_addr, iface_blockcount, i) ==
    IF ~st.ok \/ i >= iface_blockcount THEN st
    ELSE ecu_interfaces(
             ecu_interface_at(TakeInt(Seek(st, iface_table_addr + i * 4), m, 4),
                              m, iface_table_addr),
             m, iface_table_addr, iface_blockcount, i + 1)

\* the sub-interface loop of ECU::new from index i
RECURSIVE ecu_subinterfaces(_, _, _, _, _)
ecu_subinterfaces(st, m, ct_table_addr, subiface_count, i) ==
    IF ~st.ok \/ ~BelowUsize(i, subiface_count) THEN st
    ELSE ecu_subinterfaces(
             ecu_subinterface_at(TakeInt(Seek(st, ct_table_addr + i * 4), m, 4),
                                 m, ct_table_addr, i),
             m, ct_table_addr, subiface_count, i + 1)
\* Option::unwrap_or
unwrap_or(o, d) == IF o.some THEN o.v ELSE d

\* a faulty struct literal: the three strings default to the empty string
\* instead of being unwrapped; the rest as ECU::new has it
ECU_build_lenient(base_addr, h, ifaces, subifaces, p) ==
    Ok([base_addr |-> base_addr,
        ecu_ifaces |-> ifaces,
        ecu_ifaces_subtype |-> subifaces,
        ecuvarient |-> h.ecuvarient_block,
        diagjob |-> h.diagjob_block,
        dtc |-> h.dtc_block,
        env |-> h.env_block,
        vcdomain |-> h.vc_domain_block,
        presentations |-> h.pres_block,
        info |-> h.info_block,
        unk_block |-> h.unk_block,
        ignition_required |-> h.ign_required,
        unk2 |-> h.unk2,
        unk_block_count |-> h.unk_blockcount,
        unk_block_offset |-> h.unk_blockoffset,
        ecu_sgml_src |-> h.ecu_sgml_src,
        unk6_relative_offset |-> h.unk6_rel_offset,
        ecu_varient |-> <<>>,
        diag_services |-> <<>>,
        name |-> unwrap_or(h.name, <<>>),
        ecuname_ctf |-> h.ecuname_ctf,
        ecudesc_ctf |-> h.ecudesc_ctf,
        xml_version |-> unwrap_or(h.xml_version, <<>>),
        interface_block_count |-> h.iface_blockcount,
        interface_table_offset |-> h.iface_tableoffset,
        sub_interface_count |-> h.subiface_count,
        sub_interface_offset |-> h.subiface_offset,
        ecu_class_name |-> unwrap_or(h.ecu_classname, <<>>),
        unk_str7 |-> unwrap_or(h.unk7, <<78, 47, 65>>),
        unk_str8 |-> unwrap_or(h.unk8, <<85, 110, 107, 110, 111, 119, 110>>),
        unk39 |-> h.unk39], p)

\* the struct literal of ECU::new: three of the strings are unwrapped
ECU_build(base_addr, h, ifaces, subifaces, p) ==
    IF ~h.name.some \/ ~h.xml_version.some \/ ~h.ecu_classname.some
    THEN Panic("unwrap on None", p)
    ELSE Ok([base_addr |-> base_addr,
             ecu_ifaces |-> ifaces,
             ecu_ifaces_subtype |-> subifaces,
             ecuvarient |-> h.ecuvarient_block,
             diagjob |-> h.diagjob_block,
             dtc |-> h.dtc_block,
             env |-> h.env_block,
             vcdomain |-> h.vc_domain_block,
             presentations |-> h.pres_block,
             info |-> h.info_block,
             unk_block |-> h.unk_block,
             ignition_required |-> h.ign_required,
             unk2 |-> h.unk2,
             unk_block_count |-> h.unk_blockcount,
             unk_block_offset |-> h.unk_blockoffset,
             ecu_sgml_src |-> h.ecu_sgml_src,
             unk6_relative_offset |-> h.unk6_rel_offset,
             ecu_varient |-> <<>>,
             diag_services |-> <<>>,
             name |-> h.name.v,
             ecuname_ctf |-> h.ecuname_ctf,
             ecudesc_ctf |-> h.ecudesc_ctf,
             xml_version |-> h.xml_version.v,
             interface_block_count |-> h.iface_blockcount,
             interface_table_offset |-> h.iface_tableoffset,
             sub_interface_count |-> h.subiface_count,
             sub_interface_offset |-> h.subiface_offset,
             ecu_class_name |-> h.ecu_classname.v,
             unk_str7 |-> unwrap_or(h.unk7, <<78, 47, 65>>),
             unk_str8 |-> unwrap_or(h.unk8, <<85, 110, 107, 110, 111, 119, 110>>),
             unk39 |-> h.unk39], p)

\* a faulty pool read: the block's stored block_size is what is read
read_ecu_pool_by_block_size(m, blk, wraps) ==
    [ok |-> read_bytes(m, blk.block_offset, blk.block_size).ok,
     err |-> IF read_bytes(m, blk.block_offset, blk.block_size).ok
             THEN "" ELSE "Error reading block",
     v |-> read_bytes(m, blk.block_offset, blk.block_size).v,
     pos |-> read_bytes(m, blk.block_offset, blk.block_size).pos,
     at |-> blk.block_offset, n |-> blk.block_size]

\* ECU::read_ecu_pool: one seek to block_offset and one read of
\* entry_count * entry_size bytes; `at` and `n` tell the read that was asked for.
\* Both factors are `as usize`: two negative factors overflow the product, which
\* a build with overflow checks turns into a panic and a build without wraps
\* to their product
read_ecu_pool(m, blk, wraps) ==
    LET n == blk.entry_count * blk.entry_size
        r == read_bytes(m, blk.block_offset, n)
    IN  IF blk.entry_count < 0 /\ blk.entry_size < 0 /\ ~wraps
        THEN [ok |-> FALSE, err |-> "attempt to multiply with overflow", v |-> <<>>,
              pos |-> blk.block_offset, at |-> blk.block_offset, n |-> -1]
        ELSE [ok |-> r.ok, err |-> IF r.ok THEN "" ELSE "Error reading block",
              v |-> r.v, pos |-> r.pos, at |-> blk.block_offset, n |-> n]

\* crate::diag::DiagService::new, an external decoder: it is given where the
\* service lives and its ordinal, and fails when that place is outside the source
DiagService_new(m, base_addr, index) ==
    IF CanRead(m, base_addr, 1)
    THEN Ok([base_addr |-> base_addr, index |-> index], base_addr)
    ELSE Panic("diag service outside the source", base_addr)

\* one entry of the diagnostic-service pool, read at the pool reader's cursor:
\* offset, size, crc (i32) and config (i16)
diag_pool_entry(pool, dp) ==
    TakeInt(TakeInt(TakeInt(TakeInt(Threaded(NoMask, dp), pool, 4), pool, 4), pool, 4),
            pool, 2)

\* the loop of ECU::create_diag_pool from index i: the entries are read one
\* after the other from the pool copy (dp is its cursor), and entry e is
\* decoded at its offset plus the block's
RECURSIVE diag_entries(_, _, _, _, _, _)
RECURSIVE diag_entry(_, _, _, _, _, _)
diag_entries(st, m, pool, dp, blk, i) ==
    IF ~st.ok \/ ~BelowUsize(i, blk.entry_count) THEN st
    ELSE diag_entry(st, m, pool, diag_pool_entry(pool, dp), blk, i)

diag_entry(st, m, pool, e, blk, i) ==
    IF ~e.ok THEN Failed(st, e.err)
    ELSE diag_entries(
             TookCall([st EXCEPT !.vals = Append(@, e.vals[1])],
                      DiagService_new(m, e.vals[1] + blk.block_offset, i)),
             m, pool, e.pos, blk, i + 1)

\* what a pool decoder reports: the pool read and the list made of it
Pooled(pool, st) ==
    IF ~st.ok THEN [Panic(st.err, st.pos) EXCEPT !.v = [pool |-> pool]]
    ELSE Ok([pool |-> pool, list |-> st.vals], st.pos)

\* ECU::create_diag_pool from the pool read
diag_pool_of(m, self, pool) ==
    IF ~pool.ok THEN [Panic(pool.err, pool.pos) EXCEPT !.v = [pool |-> pool]]
    ELSE Pooled(pool, diag_entries(Threaded(NoMask, pool.pos), m, pool.v, 0, self.diagjob, 0))

\* ECU::create_diag_pool
create_diag_pool(m, self, wraps) ==
    diag_pool_of(m, self, read_ecu_pool(m, self.diagjob, wraps))

\* one entry of the variant pool, read at address a of the pool copy:
\* entry_offset, entry_size (i32) and pool_entry_attrib (u16)
varient_pool_entry(pool, a) ==
    TakeUInt(TakeInt(TakeInt(Threaded(NoMask, a), pool, 4), pool, 4), pool, 2)

\* the loop of ECU::create_ecu_varients from index i: entry i is read at
\* i * entry_size of the pool copy, and the variant e names is decoded
RECURSIVE varient_entries(_, _, _, _, _, _)
RECURSIVE varient_entry(_, _, _, _, _, _, _)
varient_entries(st, m, pool, var_block, i, zeroed_ok) ==
    IF ~st.ok \/ ~BelowUsize(i, var_block.entry_count) THEN st
    ELSE varient_entry(st, m, pool, varient_pool_entry(pool, i * var_block.entry_size),
                       var_block, i, zeroed_ok)

varient_entry(st, m, pool, e, var_block, i, zeroed_ok) ==
    IF ~e.ok THEN Failed(st, e.err)
    ELSE varient_entries(
             TookCall([st EXCEPT !.vals = Append(@, e.vals[1])],
                      ECUVarient_new(m, e.vals[1] + var_block.block_offset, e.vals[2],
                                     zeroed_ok)),
             m, pool, var_block, i + 1, zeroed_ok)

\* ECU::create_ecu_varients from the pool read
varient_pool_of(m, self, pool, zeroed_ok) ==
    IF ~pool.ok THEN [Panic(pool.err, pool.pos) EXCEPT !.v = [pool |-> pool]]
    ELSE Pooled(pool, varient_entries(Threaded(NoMask, pool.pos), m, pool.v,
                                      self.ecuvarient, 0, zeroed_ok))

\* ECU::create_ecu_varients
create_ecu_varients(m, self, wraps, zeroed_ok) ==
    varient_pool_of(m, self, read_ecu_pool(m, self.ecuvarient, wraps), zeroed_ok)

(***************************************************************************)
(* PeakCanAPI (app_rust/src/commapi/peak_can_api.rs)                       *)
(***************************************************************************)

\* Result<T, ComServerError>
ResOk(v) == [ok |-> TRUE, v |-> v, err_code |-> 0, err_desc |-> ""]
ResErr(code, desc) == [ok |-> FALSE, v |-> 0, err_code |-> code, err_desc |-> desc]

\* `as u16` of a u32
AsU16(x) == x % 65536

TPCANMsg_new(ID, MSGTYPE, LEN, DATA) ==
    [ID |-> ID, MSGTYPE |-> MSGTYPE, LEN |-> LEN, DATA |-> DATA]

PeakCANSocket_new(handle, baudRate) == [handle |-> handle, baudRate |-> baudRate]

\* Option<PeakCANSocket>
NoSocket == [some |-> FALSE, v |-> PeakCANSocket_new(0, 0)]

PeakCanAPI_new(iface) == [iface |-> iface, peakcan_iface |-> NoSocket]

\* a call into the driver and the status it answered
CAN_Initialize(Channel, Btr0Btr1, HwType, IOPort, Interrupt, status) ==
    [fn |-> "CAN_Initialize", Channel |-> Channel, Btr0Btr1 |-> Btr0Btr1,
     HwType |-> HwType, IOPort |-> IOPort, Interrupt |-> Interrupt, status |-> status]

CAN_Write(Channel, MessageBuffer, status) ==
    [fn |-> "CAN_Write", Channel |-> Channel, MessageBuffer |-> MessageBuffer,
     status |-> status]

\* what a method leaves: the PeakCanAPI, its return value, its driver calls
Left(self, r, driver) == [self |-> self, r |-> r, driver |-> driver]

\* PeakCanAPI::open_device
open_device(self) == Left(self, ResOk(0), <<>>)

\* PeakCanAPI::close_can_interface: with a socket stored the name is cleared
\* and the write guard of the lock is dropped; the Option behind the lock is
\* not assigned
close_can_interface(self) ==
    IF ~self.peakcan_iface.some THEN Left(self, ResOk(0), <<>>)
    ELSE Left([self EXCEPT !.iface = ""], ResOk(0), <<>>)

\* open_can_interface after its `close_can_interface()?`, which is always Ok:
\* the socket is stored and the name set, then the driver is initialised
open_socket(self, bus_speed, status) ==
    Left([self EXCEPT !.peakcan_iface = Some(PeakCANSocket_new(81, AsU16(bus_speed))),
                      !.iface = "Peak-CAN"],
         IF status # 0 THEN ResErr(status, "PeakCAN read error") ELSE ResOk(0),
         <<CAN_Initialize(81, AsU16(bus_speed), 0, 0, 0, status)>>)

\* PeakCanAPI::open_can_interface; status is what CAN_Initialize answers
open_can_interface(self, bus_speed, is_ext_can, status) ==
    IF self.peakcan_iface.some
    THEN open_socket(close_can_interface(self).self, bus_speed, status)
    ELSE open_socket(self, bus_speed, status)

\* PeakCanAPI::is_connected
is_connected(self) == self.peakcan_iface.some

\* the clone of a PeakCanAPI: Clone copies iface and clones the Arc, so the
\* Option<PeakCANSocket> behind the lock is the one of the original. A clone is
\* kept as its own iface; its socket is read through the original
NoPeer == [some |-> FALSE, iface |-> ""]
clone_box(self) == [some |-> TRUE, iface |-> self.iface]

\* the PeakCanAPI a clone is, given the socket it shares
peer_view(clone, shared) == [iface |-> clone.iface, peakcan_iface |-> shared]

\* a faulty loop: every frame is written whatever the driver answers
frames_written_all(statuses) == Len(statuses)

\* the frames the loop of send_can_packets writes: all of them, or those
\* through the first whose write answers a status other than 0
frames_written(statuses) ==
    IF \A i \in 1..Len(statuses) : statuses[i] = 0 THEN Len(statuses)
    ELSE CHOOSE i \in 1..Len(statuses) :
             /\ statuses[i] # 0
             /\ \A j \in 1..(i - 1) : statuses[j] = 0

\* PeakCanAPI::send_can_packets; statuses[i] is what the driver would answer
\* to the write of frame i
send_can_packets(self, data, timeout_ms, statuses) ==
    IF ~self.peakcan_iface.some
    THEN Left(self, ResErr(2, "PeakCAN interface not open"), <<>>)
    ELSE Left(self,
              IF \E i \in 1..Len(statuses) : statuses[i] # 0
              THEN ResErr(3, "PeakCAN write error")
              ELSE ResOk(Len(data)),
              [i \in 1..frames_written(statuses) |->
                  CAN_Write(self.peakcan_iface.v.handle,
                            TPCANMsg_new(data[i].id, "PCAN_MESSAGE_STANDARD",
                                         data[i].dlc, data[i].data),
                            statuses[i])])

\* a read of the driver: the status it answered and the message it filled in
CAN_Read(Channel, MessageBuffer, status) ==
    [fn |-> "CAN_Read", Channel |-> Channel, MessageBuffer |-> MessageBuffer,
     status |-> status]

\* CanFrame::newWithData
CanFrame_newWithData(id, dlc, data) == [id |-> id, dlc |-> dlc, data |-> data]

\* the turns the loop of read_can_packets takes. answers[i] is what the driver
\* answers on turn i and Len(answers) the turns the clock allows before
\* timeout_ms is over. A turn whose status is not 0 returns; a turn whose push
\* makes res.len() equal to max_msgs returns; no other turn does
reads_made(max_msgs, answers) ==
    IF \E i \in 1..Len(answers) : answers[i].status # 0 \/ i = max_msgs
    THEN CHOOSE i \in 1..Len(answers) :
             /\ answers[i].status # 0 \/ i = max_msgs
             /\ \A j \in 1..(i - 1) : answers[j].status = 0 /\ j # max_msgs
    ELSE Len(answers)

\* PeakCanAPI::read_can_packets
read_can_packets(self, timeout_ms, max_msgs, answers) ==
    IF ~self.peakcan_iface.some
    THEN Left(self, ResErr(2, "PeakCAN interface not open"), <<>>)
    ELSE Left(self,
              IF \E i \in 1..reads_made(max_msgs, answers) : answers[i].status # 0
              THEN ResErr(answers[reads_made(max_msgs, answers)].status,
                          "PeakCAN read error")
              ELSE ResOk([i \in 1..reads_made(max_msgs, answers) |->
                             CanFrame_newWithData(answers[i].msg.ID, answers[i].msg.LEN,
                                                  answers[i].msg.DATA)]),
              [i \in 1..reads_made(max_msgs, answers) |->
                  CAN_Read(self.peakcan_iface.v.handle, answers[i].msg,
                           answers[i].status)])

(***************************************************************************)
(* The command line tool (app_rust/src/cli.rs).  A String is the sequence  *)
(* of its characters                                                       *)
(***************************************************************************)

\* the digits of radix 16 by value, in either case
HexLower == <<"0", "1", "2", "3", "4", "5", "6", "7", "8", "9", "a", "b", "c", "d", "e", "f">>
HexUpper == <<"0", "1", "2", "3", "4", "5", "6", "7", "8", "9", "A", "B", "C", "D", "E", "F">>

\* char::to_digit(16): the value of c, or -1 for None
to_digit(c) ==
    IF \E i \in 1..16 : HexLower[i] = c \/ HexUpper[i] = c
    THEN (CHOOSE i \in 1..16 : HexLower[i] = c \/ HexUpper[i] = c) - 1
    ELSE -1

\* char::is_digit(16)
is_digit(c) == to_digit(c) >= 0

\* str::starts_with("0x")
starts_with_0x(value) == Len(value) >= 2 /\ value[1] = "0" /\ value[2] = "x"

\* a faulty is_hex: the prefix is not asked for
is_hex_any_prefix(value) == \A k \in 1..Len(value) : is_digit(value[k])

\* is_hex
is_hex(value) ==
    IF starts_with_0x(value)
    THEN \A k \in 3..Len(value) : is_digit(value[k])
    ELSE FALSE

\* u8::from_str_radix(two characters, 16): digits behind an optional plus sign
from_str_radix(a, b) ==
    IF is_digit(a) /\ is_digit(b) THEN Some(16 * to_digit(a) + to_digit(b))
    ELSE IF a = "+" /\ is_digit(b) THEN Some(to_digit(b))
    ELSE NoValue

\* what a function that may panic leaves
Done(v) == [ok |-> TRUE, err |-> "", v |-> v]
Abort(msg) == [ok |-> FALSE, err |-> msg, v |-> <<>>]

\* the digits to_hex parses: the value without its "0x", if it has one
hex_digits(value) ==
    IF starts_with_0x(value) THEN SubSeq(value, 3, Len(value)) ELSE value

\* the k-th step of the map of to_hex goes wrong: the slice i..i+2 runs past
\* the end, or the two characters do not parse
pair_fails(d, k) == 2 * k > Len(d) \/ ~from_str_radix(d[2 * k - 1], d[2 * k]).some

\* to_hex on the digits d: the pairs are parsed in order; the first that goes
\* wrong panics, in the slice or in the unwrap of the collected Result
hex_pairs(d) ==
    IF \E k \in 1..((Len(d) + 1) \div 2) : pair_fails(d, k)
    THEN IF 2 * (CHOOSE k \in 1..((Len(d) + 1) \div 2) :
                     pair_fails(d, k) /\ \A j \in 1..(k - 1) : ~pair_fails(d, j)) > Len(d)
         THEN Abort("byte index out of range")
         ELSE Abort("unwrap on Err(ParseIntError)")
    ELSE Done([k \in 1..(Len(d) \div 2) |-> from_str_radix(d[2 * k - 1], d[2 * k]).v])

\* to_hex
to_hex(value) == hex_pairs(hex_digits(value))

\* print_error: the message it builds and prints, as the text of the source
\* with the value that fills its {}
print_error(type, value) ==
    IF type = 1 /\ value = <<>>
    THEN <<"error: empty value for '--sid <SID>'", value>>
    ELSE IF type = 1 /\ value # <<>>
    THEN <<"error: invalid value '{}' for '--sid <SID>': expect hex format (e.g 0x11 for ECU RESET)", value>>
    ELSE IF type = 2 /\ value # <<>>
    THEN <<"error: invalid value '{}' for '--did <DID>': expect hex format (e.g 0xF18C for ECU Serial#)", value>>
    ELSE IF type = 2 /\ value = <<>>
    THEN <<"error: empty value for '--did <DID>'", value>>
    ELSE <<"", value>>

\* Args::parse and the locals of main: the arguments, the position of main,
\* the local did, the lines printed, the two to_hex results and the UDS session
\* start_uds was called for
NoSession == [some |-> FALSE, v |-> [sid |-> <<>>, did |-> <<>>]]
Args_parse(mode, SID, DID) ==
    [mode |-> mode, SID |-> SID, DID |-> DID, pc |-> "main", did |-> <<>>,
     stdout |-> <<>>, sid_bytes |-> None, did_bytes |-> None, session |-> NoSession,
     panic |-> ""]

\* no command line is running
NoCli == [Args_parse("", None, None) EXCEPT !.pc = "none"]

\* main line 167-170: the mode is told apart
main_mode(c) ==
    IF c.mode = "CANTRACER" THEN [c EXCEPT !.pc = "start_can_tracer"]
    ELSE IF c.mode = "UDS" THEN [c EXCEPT !.pc = "sid"]
    ELSE [c EXCEPT !.pc = "exit"]

\* main line 172-176 and 193-195: the SID is looked at
main_sid(c) ==
    IF ~c.SID.some
    THEN [c EXCEPT !.stdout = Append(@, print_error(1, <<>>)), !.pc = "exit"]
    ELSE IF ~is_hex(c.SID.v)
    THEN [c EXCEPT !.stdout = Append(@, print_error(1, c.SID.v)), !.pc = "did"]
    ELSE [c EXCEPT !.pc = "did"]

\* main line 179-189: the DID is looked at and becomes the local did
main_did(c) ==
    IF ~c.DID.some THEN [c EXCEPT !.pc = "to_hex"]
    ELSE IF ~is_hex(c.DID.v)
    THEN [c EXCEPT !.stdout = Append(@, print_error(2, c.DID.v)), !.did = c.DID.v,
                   !.pc = "to_hex"]
    ELSE [c EXCEPT !.did = c.DID.v, !.pc = "to_hex"]

\* main line 191, the arguments of the call: to_hex(&service), then to_hex(&did)
main_to_hex(c) ==
    IF ~to_hex(c.SID.v).ok
    THEN [c EXCEPT !.panic = to_hex(c.SID.v).err, !.pc = "panicked"]
    ELSE IF ~to_hex(c.did).ok
    THEN [c EXCEPT !.sid_bytes = Some(to_hex(c.SID.v).v),
                   !.panic = to_hex(c.did).err, !.pc = "panicked"]
    ELSE [c EXCEPT !.sid_bytes = Some(to_hex(c.SID.v).v),
                   !.did_bytes = Some(to_hex(c.did).v), !.pc = "start_uds"]

\* start_uds: open_device is Ok, its line is printed and the UDS client is
\* started on a clone with the two byte strings
start_uds(c) ==
    [c EXCEPT !.stdout = Append(@, <<"CAN Init: Success", <<>>>>),
              !.session = Some([sid |-> c.sid_bytes.v, did |-> c.did_bytes.v]),
              !.pc = "exit"]

(***************************************************************************)
(* ODBHome (app_rust/src/windows/odb.rs)                                   *)
(***************************************************************************)

\* Option<Vin> and Option<Service09> without a value
NoVin == [some |-> FALSE,
          v |-> [raw |-> "", year |-> "", manufacture_name |-> "",
                 manufacture_location |-> ""]]
NoService09 == [some |-> FALSE, v |-> ""]

\* ODBHome::new; the server is kept as what its capabilities answer for
\* ISO 15765
ODBHome_new(server) == [server |-> server, vin |-> NoVin, s1 |-> None, s9 |-> NoService09]

\* ODBHome::update on InitODB.  ok1, ok9 and okv are whether Service01::init,
\* Service09::init and get_vin return Ok; s1, s9 and vin what their Ok holds
update(self, ok1, s1, ok9, s9, okv, vin) ==
    [self EXCEPT !.s1 = IF ok1 THEN Some(s1) ELSE @,
                 !.vin = IF ok9 /\ okv THEN Some(vin) ELSE @,
                 !.s9 = IF ok9 THEN Some(s9) ELSE @]

\* format!("{:02X} ", pid) of a one-byte PID
pid_text(pid) == <<HexUpper[(pid \div 16) + 1], HexUpper[(pid % 16) + 1], " ">>

\* the CAN button of the view: with its on_press when the server supports
\* ISO 15765
can_btn(self) ==
    IF self.server = "Yes"
    THEN [text |-> "ODB over CANBUS", on_press |-> "InitODB"]
    ELSE [text |-> "No CANBUS Support on adapter", on_press |-> ""]

\* a Text of the column: the literal of the source and what fills its {}
Text_new(literal, arg) == <<literal, arg>>

\* the four Texts of a VIN, or none
vin_texts(self) ==
    IF self.vin.some
    THEN << Text_new("VIN: {}", self.vin.v.raw),
            Text_new("Year: {}", self.vin.v.year),
            Text_new("Manufacture: {}", self.vin.v.manufacture_name),
            Text_new("Location: {}", self.vin.v.manufacture_location) >>
    ELSE <<>>

\* the Texts of the supported services: s01 and s09 are both written from s1
service_texts(self) ==
    << Text_new("Supported Services:", ""),
       Text_new("Service 01: {}", IF self.s1.some THEN "Yes" ELSE "No"),
       Text_new("Service 09: {}", IF self.s1.some THEN "Yes" ELSE "No") >>

\* the row of supported PIDs, when s1 is there
pid_row(self) ==
    IF self.s1.some
    THEN << <<"Service 01 supported PIDS: ">>
            \o [i \in 1..Len(self.s1.v) |-> pid_text(self.s1.v[i])] >>
    ELSE <<>>

\* ODBHome::view: the buttons, the Texts of the column, the PID row
view(self) ==
    [odb_btn |-> [text |-> "K-Line not implemented", on_press |-> ""],
     can_btn |-> can_btn(self),
     texts |-> <<Text_new("ODB Diagnostics", "")>> \o vin_texts(self) \o service_texts(self),
     pid_row |-> pid_row(self)]

\* what is on the screen before the first view
NoElement ==
    [odb_btn |-> [text |-> "", on_press |-> ""], can_btn |-> [text |-> "", on_press |-> ""],
     texts |-> <<>>, pid_row |-> <<>>]

\* no ODB window is open
NoOdb == [home |-> ODBHome_new(""), element |-> NoElement, turn |-> "none"]

(***************************************************************************)
(* The files decoded: a family of byte images laid out the way the         *)
(* decoders read them, each from a record of parameters                    *)
(***************************************************************************)

\* most pool entries per block, and most interfaces / sub-interfaces per ECU
MaxEntries == 3
MaxIfaces == 2

\* a field of a record to encode: width and value
Fld(w, v) == [w |-> w, v |-> v]

\* n mask bits, the fields in `absent` cleared
BitsWithout(n, absent) == [k \in 1..n |-> IF k \in absent THEN 0 ELSE 1]

\* n mask bits, the fields in `present` set
BitsWith(n, present) == [k \in 1..n |-> IF k \in present THEN 1 ELSE 0]

\* bits as n little-endian bytes
MaskBytes(bits, n) ==
    LET bit(j) == IF j <= Len(bits) THEN bits[j] ELSE 0
    IN  [k \in 1..n |-> bit(8 * k - 7) + 2 * bit(8 * k - 6) + 4 * bit(8 * k - 5)
                        + 8 * bit(8 * k - 4) + 16 * bit(8 * k - 3)
                        + 32 * bit(8 * k - 2) + 64 * bit(8 * k - 1)
                        + 128 * bit(8 * k)]

\* the fields whose bit is set, one after the other
RECURSIVE EncFields(_, _)
EncFields(bits, fs) ==
    IF fs = <<>> THEN <<>>
    ELSE (IF Head(bits) = 1 THEN LE(Head(fs).v, Head(fs).w) ELSE <<>>)
         \o EncFields(Tail(bits), Tail(fs))

RECURSIVE Concat(_)
Concat(ss) == IF ss = <<>> THEN <<>> ELSE Head(ss) \o Concat(Tail(ss))

\* m with bytes bs stored from address a on
Place(m, a, bs) ==
    [k \in 1..Len(m) |-> IF k > a /\ k <= a + Len(bs) THEN bs[k - a] ELSE m[k]]

RECURSIVE PlaceAll(_, _)
PlaceAll(m, segs) ==
    IF segs = <<>> THEN m
    ELSE PlaceAll(Place(m, Head(segs).at, Head(segs).bytes), Tail(segs))

Seg(a, bs) == [at |-> a, bytes |-> bs]

\* a text with its terminator
Z(txt) == txt \o <<0>>

TxtFoobar == <<67, 80, 95, 70, 79, 79, 66, 65, 82>>

\* the name tables an interface is given
NameLists ==
    { <<>>,
      <<ParamText.CP_BAUDRATE, ParamText.CP_P2_TIMEOUT>>,
      <<ParamText.CP_BAUDRATE, TxtFoobar, ParamText.CP_P2_TIMEOUT>>,
      <<TxtFoobar>> }

\* bytes of one variant record: its header and text, then five table entries
VarSize == 32 + 4 * 5

\* where each part of an image lives
Layout ==
    LET a_ecu      == 4
        a_strs     == a_ecu + 10 + 192 + 2
        a_iftab    == a_strs + 12
        a_if0      == a_iftab + 4 * MaxIfaces
        a_ifstr    == a_if0 + 36
        a_names    == a_ifstr + 4
        a_nametxt  == a_names + 12
        a_ifx      == a_nametxt + 36
        a_subtab   == a_ifx + 8 * MaxIfaces
        a_sub0     == a_subtab + 4 * MaxIfaces
        a_substr   == a_sub0 + 36
        a_subx     == a_substr + 2
        a_cp       == a_subx + 8 * MaxIfaces
        a_cpdump   == a_cp + 24
        a_diagpool == a_cpdump + 8
        a_diagrec  == a_diagpool + 16 * MaxEntries
        a_varpool  == a_diagrec + 4 * MaxEntries
        a_var0     == a_varpool + 12 * MaxEntries
    IN  [ecu |-> a_ecu, strs |-> a_strs, iftab |-> a_iftab, if0 |-> a_if0,
         ifstr |-> a_ifstr, names |-> a_names, nametxt |-> a_nametxt,
         ifx |-> a_ifx, subtab |-> a_subtab, sub0 |-> a_sub0, substr |-> a_substr,
         subx |-> a_subx, cp |-> a_cp, cpdump |-> a_cpdump,
         diagpool |-> a_diagpool, diagrec |-> a_diagrec, varpool |-> a_varpool,
         var0 |-> a_var0, end |-> a_var0 + VarSize * MaxEntries]

\* address of interface k (0-based) and of sub-interface k
IfaceAt(k) == IF k = 0 THEN Layout.if0 ELSE Layout.ifx + 8 * (k - 1)
SubIfaceAt(k) == IF k = 0 THEN Layout.sub0 ELSE Layout.subx + 8 * (k - 1)

\* address of variant record k and of diagnostic-service record k
VarAt(k) == Layout.var0 + VarSize * k
DiagAt(k) == Layout.diagrec + 4 * k

\* address of the i-th text of a name table stored from Layout.nametxt on
RECURSIVE NameAt(_, _)
NameAt(names, i) ==
    IF i = 1 THEN Layout.nametxt ELSE NameAt(names, i - 1) + Len(names[i - 1]) + 1

\* the four fields of the k-th block descriptor (1-based) of an image
BlockOf(im, k) ==
    LET data_offset == data_offset_of(im.header)
    IN  CASE k = 1 -> <<Layout.varpool - data_offset, im.var_n, im.var_esize, im.var_bsize>>
          [] k = 2 -> <<Layout.diagpool - data_offset, im.diag_n, im.diag_esize, im.diag_bsize>>
          [] OTHER -> <<100 * k, k, 2 * k, 3 * k>>

\* the 50 fields of the ECU record
EcuFieldsOf(im) ==
    LET L == Layout
    IN  <<Fld(4, L.strs - L.ecu), Fld(4, 11), Fld(4, 12), Fld(4, L.strs + 2 - L.ecu),
          Fld(4, im.n_if), Fld(4, L.iftab - L.ecu),
          Fld(4, im.n_sub), Fld(4, L.subtab - L.ecu),
          Fld(4, L.strs + 4 - L.ecu), Fld(4, L.strs + 6 - L.ecu),
          Fld(4, L.strs + 8 - L.ecu),
          Fld(2, 1), Fld(2, 2), Fld(2, 3), Fld(4, 4), Fld(2, 5), Fld(4, 6)>>
        \o Concat([k \in 1..8 |-> [j \in 1..4 |-> Fld(4, BlockOf(im, k)[j])]])
        \o <<Fld(4, 39)>>

\* the ECU record: 48 mask bits, the skipped word, the fields present.  Fields
\* 49 and 50 follow the mask's top bit, which is how the decoder gates them
EcuRecordOf(im) ==
    LET bits == BitsWithout(48, im.ecu_absent)
    IN  MaskBytes(bits, 6) \o LE(Layout.strs - Layout.ecu, 4)
        \o EncFields(bits \o <<bits[48], bits[48]>>, EcuFieldsOf(im))

\* interface 0 carries the name table, the others only a name
IfaceRecordOf(im, k) ==
    LET a == IfaceAt(k)
    IN  IF k = 0
        THEN LET bits == BitsWithout(8, im.if_absent)
             IN  MaskBytes(bits, 4)
                 \o EncFields(bits, <<Fld(4, Layout.ifstr - a), Fld(4, 21), Fld(4, 22),
                                      Fld(4, Layout.ifstr + 2 - a), Fld(4, 5),
                                      Fld(4, Len(im.names)), Fld(4, Layout.names - a),
                                      Fld(4, 26)>>)
        ELSE MaskBytes(<<1>>, 4) \o LE(Layout.ifstr - a, 4)

SubIfaceRecordOf(im, k) ==
    LET a == SubIfaceAt(k)
    IN  IF k = 0
        THEN LET bits == BitsWithout(11, im.sub_absent)
             IN  MaskBytes(bits, 4)
                 \o EncFields(bits, <<Fld(4, Layout.substr - a), Fld(4, 31), Fld(4, 32),
                                      Fld(2, 33), Fld(2, 34), Fld(4, 35), Fld(4, 36),
                                      Fld(4, 37), Fld(1, 38), Fld(1, 39), Fld(1, 40)>>)
        ELSE MaskBytes(<<1>>, 4) \o LE(Layout.substr - a, 4)

ComParamRecordOf(im) ==
    LET bits == BitsWithout(8, im.cp_absent)
    IN  MaskBytes(bits, 2)
        \o EncFields(bits, <<Fld(2, im.cp_index), Fld(2, 3), Fld(2, 0), Fld(2, 5),
                             Fld(4, 7), Fld(2, 8), Fld(4, im.cp_size),
                             Fld(4, Layout.cpdump - Layout.cp)>>)

\* variant record k: name, diagnostic-service and VC-domain (count, offset),
\* then the text and the two pointer tables inside the record's own bytes.
\* Every record stores the same relative offsets; the tables' entries differ
\* from one record to the next
VarRecordOf(im, k) ==
    LET bits == BitsWith(26, {1, 15, 16, 23, 24})
        head == MaskBytes(bits, 4) \o LE(0, 4)
                \o LE(28, 4) \o LE(im.ds_n, 4) \o LE(40, 4) \o LE(im.vc_n, 4)
                \o LE(32, 4) \o Z(<<86>>) \o <<0, 0>>
    IN  head \o LE(16, 4) \o LE(20 + k, 4) \o LE(100 + k, 4) \o LE(110 + k, 4)
        \o LE(120 + k, 4)

\* pool entry k of the diagnostic-service pool and of the variant pool
DiagEntryOf(im, k) ==
    LE(DiagAt(k) - Layout.diagpool, 4) \o LE(4, 4) \o LE(77, 4) \o LE(k, 2)

VarEntryOf(im, k) ==
    LE(VarAt(k) - Layout.varpool, 4) \o LE(VarSize, 4) \o LE(k, 2)

\* the image of parameters im, cut to im.len bytes
MemOf(im) ==
    LET L == Layout
        zero == [k \in 1..L.end |-> 0]
        segs ==
            <<Seg(0, <<9, 0, 0, 0>>),
              Seg(L.ecu, EcuRecordOf(im)),
              Seg(L.strs, Z(<<69>>) \o Z(<<49>>) \o Z(<<67>>) \o Z(<<97>>) \o Z(<<98>>)),
              Seg(L.iftab, Concat([k \in 1..MaxIfaces |-> LE(IfaceAt(k - 1) - L.iftab, 4)])),
              Seg(L.ifstr, Z(<<73>>) \o Z(<<118>>)),
              Seg(L.names, Concat([i \in 1..Len(im.names) |->
                                       LE(NameAt(im.names, i) - L.names, 4)])),
              Seg(L.nametxt, Concat([i \in 1..Len(im.names) |-> Z(im.names[i])])),
              Seg(L.subtab, Concat([k \in 1..MaxIfaces |-> LE(SubIfaceAt(k - 1) - L.subtab, 4)])),
              Seg(L.substr, Z(<<83>>)),
              Seg(L.cp, ComParamRecordOf(im)),
              Seg(L.cpdump, im.cp_bytes)>>
            \o [k \in 1..MaxIfaces |-> Seg(IfaceAt(k - 1), IfaceRecordOf(im, k - 1))]
            \o [k \in 1..MaxIfaces |-> Seg(SubIfaceAt(k - 1), SubIfaceRecordOf(im, k - 1))]
            \o [k \in 1..MaxEntries |-> Seg(L.diagpool + (k - 1) * im.diag_esize,
                                            DiagEntryOf(im, k - 1))]
            \o [k \in 1..MaxEntries |-> Seg(DiagAt(k - 1), <<170, 187, 204, 221>>)]
            \o [k \in 1..MaxEntries |-> Seg(L.varpool + (k - 1) * im.var_esize,
                                            VarEntryOf(im, k - 1))]
            \o [k \in 1..MaxEntries |-> Seg(VarAt(k - 1), VarRecordOf(im, k - 1))]
    IN  SubSeq(PlaceAll(zero, segs), 1, im.len)

\* the well-formed file the others are variations of
Canon ==
    [header |-> [size_of_str_pool |-> 8, cff_header_size |-> 4],
     ecu_absent |-> {},
     n_if |-> MaxIfaces, n_sub |-> MaxIfaces,
     names |-> <<ParamText.CP_BAUDRATE, ParamText.CP_P2_TIMEOUT>>,
     if_absent |-> {}, sub_absent |-> {},
     cp_index |-> 1, cp_size |-> 4, cp_absent |-> {},
     cp_bytes |-> <<50, 0, 0, 0, 1, 2, 3, 4>>,
     diag_n |-> MaxEntries, diag_esize |-> 14, diag_bsize |-> 14 * MaxEntries,
     var_n |-> MaxEntries, var_esize |-> 10, var_bsize |-> 10 * MaxEntries,
     vc_n |-> 2, ds_n |-> 2,
     len |-> Layout.end]

\* sets of ECU fields a file leaves out
EcuAbsentSets ==
    { {1}, {4}, {9}, {10}, {11}, {10, 11}, {2, 3}, {5, 6, 7, 8}, {12, 13, 14, 15, 16, 17},
      {18}, {22, 26}, {18, 19, 20, 21}, {30, 34}, {46, 47}, {48}, 18..48 }

\* 8-byte areas a ComParameter's dump points into
DumpBytes ==
    { <<255, 255, 255, 255, 0, 0, 0, 0>>, <<0, 0, 0, 128, 0, 0, 0, 0>>,
      <<120, 86, 52, 18, 0, 0, 0, 0>>, <<1, 2, 3, 127, 9, 9, 9, 9>> }

\* lengths a file is cut to
CutLens ==
    { Layout.ecu + 2, Layout.ecu + 5, Layout.ecu + 8, Layout.ecu + 60, Layout.strs,
      Layout.if0 + 6, Layout.nametxt + 5, Layout.sub0 + 10, Layout.cp + 1,
      Layout.cp + 12, Layout.cpdump + 2, Layout.diagpool + 7,
      Layout.varpool + 3, Layout.var0 + 20, Layout.end - 1 }

Images ==
    {Canon}
    \cup {[Canon EXCEPT !.ecu_absent = s] : s \in EcuAbsentSets}
    \cup {[Canon EXCEPT !.header = [size_of_str_pool |-> 0, cff_header_size |-> 0]]}
    \cup {[Canon EXCEPT !.n_if = a, !.n_sub = b] : a \in 0..MaxIfaces, b \in 0..MaxIfaces}
    \cup {[Canon EXCEPT !.names = n, !.cp_index = i, !.cp_size = s] :
             n \in NameLists, i \in -1..3, s \in {0, 1, 2, 4, 8}}
    \cup {[Canon EXCEPT !.cp_absent = a] : a \in {{1}, {7}, {8}, {7, 8}}}
    \cup {[Canon EXCEPT !.cp_bytes = b] : b \in DumpBytes}
    \cup {[Canon EXCEPT !.if_absent = a] : a \in {{1}, {6}, {7}, {4, 5}}}
    \cup {[Canon EXCEPT !.sub_absent = a] : a \in {{1}, {2, 3}, {9, 10, 11}}}
    \cup {[Canon EXCEPT !.diag_n = n, !.diag_esize = e, !.diag_bsize = b] :
             n \in 0..MaxEntries, e \in {14, 16}, b \in {0, 99}}
    \cup {[Canon EXCEPT !.var_n = n, !.var_esize = e, !.var_bsize = b] :
             n \in 0..MaxEntries, e \in {10, 12}, b \in {0, 99}}
    \cup {[Canon EXCEPT !.vc_n = a, !.ds_n = b] : a \in 0..2, b \in 0..3}
    \cup {[Canon EXCEPT !.len = n] : n \in CutLens}
    \cup {[Canon EXCEPT !.ecu_absent = 1..48, !.len = n] :
             n \in {Layout.ecu + 6, Layout.ecu + 8, Layout.end}}

(***************************************************************************)
(* The caller: one call on a freshly opened source                         *)
(***************************************************************************)

\* where the caller may have left the cursor before a call
EntryCursors == {0, Layout.ecu}

NoCall == [op |-> "none", in |-> <<>>, r |-> <<>>]

NoEcu ==
    [base_addr |-> 0, entry_pos |-> 0, h |-> <<>>, ifaces |-> <<>>,
     subifaces |-> <<>>, res |-> <<>>, diag_pool |-> <<>>, var_pool |-> <<>>,
     err |-> ""]

Init ==
    /\ img \in Images
    /\ mem = MemOf(img)
    /\ header = img.header
    /\ pos \in EntryCursors
    /\ pc = "idle"
    /\ ecu = NoEcu
    /\ out = NoCall
    /\ log = <<>>
    /\ dev = PeakCanAPI_new("PeakCan")
    /\ bus = <<>>
    /\ calls = <<>>
    /\ peer = NoPeer
    /\ cli = NoCli
    /\ odb = NoOdb

\* a stand-alone call ends: its outcome is kept, the cursor is where it left it
Finish(op, in, r) ==
    /\ out' = [op |-> op, in |-> in, r |-> r]
    /\ pos' = r.pos
    /\ pc' = IF r.ok THEN "returned" ELSE "panicked"
    /\ UNCHANGED <<mem, img, header, ecu, log, pcan_vars, app_vars>>

\* ECUInterface::new on interface k of the file
CallECUInterface ==
    /\ pc = "idle"
    /\ \E k \in 0..(MaxIfaces - 1) :
          Finish("ECUInterface", [base_addr |-> IfaceAt(k)],
                 ECUInterface_new(mem, IfaceAt(k)))

\* ECUInterfaceSubType::new on sub-interface k of the file
CallECUInterfaceSubType ==
    /\ pc = "idle"
    /\ \E k \in 0..(MaxIfaces - 1) :
          Finish("ECUInterfaceSubType", [base_addr |-> SubIfaceAt(k), index |-> k],
                 ECUInterfaceSubType_new(mem, SubIfaceAt(k), k))

\* ComParameter::new on the file's communication parameter, its parent the
\* interface decoded from interface 0
CallComParameter ==
    /\ pc = "idle"
    /\ \E parent \in {ECUInterface_new(mem, IfaceAt(0))} :
          /\ parent.ok
          /\ Finish("ComParameter",
                    [base_addr |-> Layout.cp, parent_iface |-> parent.v],
                    ComParameter_new(mem, Layout.cp, parent.v))

\* texts handed to ParamName::from_string
ProbeTexts ==
    { ParamText.CP_BAUDRATE, ParamText.CP_P2_TIMEOUT, ParamText.CP_BS_MAX,
      ParamText.CP_CS_MAX, ParamText.CPI_ROUTINECOUNTER,
      ParamText.CP_P2_EXT_TIMEOUT_7F_78, ParamText.CP_P2_EXT_TIMEOUT_7F_21,
      TxtFoobar, <<>>, <<67, 80>>, <<99, 112, 95, 98, 97, 117, 100, 114, 97, 116, 101>> }

\* ParamName::from_string on a text
CallFromString ==
    /\ pc = "idle"
    /\ \E txt \in ProbeTexts :
          Finish("from_string", [txt |-> txt],
                 [ok |-> TRUE, err |-> "", v |-> from_string(txt), pos |-> pos])

\* a variant is written by to_string and the text read back by from_string
CallRoundTrip ==
    /\ pc = "idle"
    /\ \E name \in DOMAIN ParamIdent :
          Finish("round_trip", [name |-> name, txt |-> to_string(name)],
                 [ok |-> TRUE, err |-> "", v |-> from_string(to_string(name)), pos |-> pos])

\* masks, field kinds, addresses and bases of single conditional reads
ProbeMasks ==
    { Rep(1, 64), <<1, 0, 1>> \o Rep(0, 61), <<0, 1, 1>> \o Rep(0, 61), Rep(0, 64) }

ProbeFields == { I32(0), I32(-1), I16(0), I8(0), U8(0), Str, Dump(0), Dump(4), Dump(5) }

ProbeSpots ==
    { [at |-> Layout.names, base |-> Layout.names],
      [at |-> Layout.names + 4, base |-> Layout.names],
      [at |-> Layout.ecu + 10, base |-> Layout.ecu],
      [at |-> Layout.cp + 20, base |-> Layout.cp],
      [at |-> Layout.end - 2, base |-> 0] }

\* one conditional field read after a seek
CallReadField ==
    /\ pc = "idle"
    /\ \E f \in ProbeFields, mask \in ProbeMasks, s \in ProbeSpots :
          Finish("read_bitflag", [f |-> f, mask |-> mask, at |-> s.at, base |-> s.base],
                 ReadField(mask, mem, s.at, s.base, f, <<>>))

\* block::new after a seek
CallBlockNew ==
    /\ pc = "idle"
    /\ \E mask \in ProbeMasks, offset \in {0, 36},
          at \in {Layout.ecu + 10, Layout.names, Layout.end - 6} :
          Finish("block", [mask |-> mask, at |-> at, offset |-> offset],
                 block_new(mem, at, mask, offset))

\* ECUVarient::new on variant record k of the file, given the record's size
\* or a size that leaves its last 16 bytes out
CallECUVarient ==
    /\ pc = "idle"
    /\ \E k \in 0..(MaxEntries - 1), block_size \in {VarSize, VarSize - 16},
          zeroed_ok \in BOOLEAN :
          Finish("ECUVarient",
                 [base_addr |-> VarAt(k), block_size |-> block_size,
                  zeroed_ok |-> zeroed_ok],
                 ECUVarient_new(mem, VarAt(k), block_size, zeroed_ok))

\* a ComParameter of a given name and value, as a caller pushes it onto the
\* com_params of a sub-interface
PushedParam(name, value) ==
    [param_index |-> 0, unk3 |-> 0, sub_iface_index |-> 0, unk5 |-> 0, unk_ctf |-> 0,
     phrase |-> 0, dump_size |-> 4, dump |-> LE(value, 4), com_param_value |-> value,
     com_param_name |-> name, base_addr |-> Layout.cp]

\* the lists pushed: empty, distinct names, a name twice with different
\* values, a value of 0, names from_string does not know
ParamLists ==
    { <<>>,
      <<PushedParam(ParamText.CP_BAUDRATE, 500), PushedParam(ParamText.CP_P2_TIMEOUT, 50)>>,
      <<PushedParam(ParamText.CP_P2_TIMEOUT, 50), PushedParam(ParamText.CP_BAUDRATE, 0),
        PushedParam(ParamText.CP_P2_TIMEOUT, 60), PushedParam(ParamText.CP_BAUDRATE, 9)>>,
      <<PushedParam(TxtFoobar, 4), PushedParam(ParamIdent.UNKNOWN, -3),
        PushedParam(ParamIdent.UNKNOWN, 5)>> }

\* the names looked up
ProbeNames == {"CP_BAUDRATE", "CP_P2_TIMEOUT", "CP_BS_MAX", "UNKNOWN"}

\* get_com_param_value on sub-interface 0 of the file, com_params pushed
CallGetComParamValue ==
    /\ pc = "idle"
    /\ \E sub \in {ECUInterfaceSubType_new(mem, SubIfaceAt(0), 0)} :
          /\ sub.ok
          /\ \E ps \in ParamLists, name \in ProbeNames :
                Finish("get_com_param_value",
                       [self |-> [sub.v EXCEPT !.com_params = ps], name |-> name],
                       Ok(get_com_param_value([sub.v EXCEPT !.com_params = ps], name), pos))

\* get_com_param_value_res on sub-interface 0 of the file, com_params pushed;
\* *result holds 7 before the call
CallGetComParamValueRes ==
    /\ pc = "idle"
    /\ \E sub \in {ECUInterfaceSubType_new(mem, SubIfaceAt(0), 0)} :
          /\ sub.ok
          /\ \E ps \in ParamLists, name \in ProbeNames :
                Finish("get_com_param_value_res",
                       [self |-> [sub.v EXCEPT !.com_params = ps], name |-> name,
                        result |-> 7],
                       Ok(get_com_param_value_res([sub.v EXCEPT !.com_params = ps], name, 7),
                          pos))

(***************************************************************************)
(* ECU::new, step by step                                                  *)
(***************************************************************************)

\* a faulty statement order: the variants are created before the
\* diagnostic services
StepAfterVarientsFirst(step) ==
    CASE step = "idle" -> "ifaces"
      [] step = "ifaces" -> "subifaces"
      [] step = "subifaces" -> "build"
      [] step = "build" -> "var"
      [] step = "var" -> "diag"
      [] step = "diag" -> "print"
      [] OTHER -> "panicked"

\* the statement order of ECU::new: what runs once a step is done
StepAfter(step) ==
    CASE step = "idle" -> "ifaces"
      [] step = "ifaces" -> "subifaces"
      [] step = "subifaces" -> "build"
      [] step = "build" -> "diag"
      [] step = "diag" -> "var"
      [] step = "var" -> "print"
      [] OTHER -> "panicked"

\* a step of ECU::new panics
EcuPanic(msg, p) ==
    /\ pc' = "panicked"
    /\ ecu' = [ecu EXCEPT !.err = msg]
    /\ pos' = p
    /\ log' = Append(log, "panic")

\* the mask, the identity fields, the flags and the 8 block descriptors
ECUNewHeader ==
    /\ pc = "idle"
    /\ \E r \in {ECU_header(mem, pos, Layout.ecu, header)} :
           IF r.ok
           THEN /\ pc' = StepAfter(pc)
                /\ ecu' = [NoEcu EXCEPT !.base_addr = Layout.ecu, !.entry_pos = pos,
                                        !.h = r.v]
                /\ pos' = r.pos
                /\ log' = Append(log, "header")
           ELSE /\ EcuPanic(r.err, r.pos)
    /\ UNCHANGED <<mem, img, header, out, pcan_vars, app_vars>>

\* all interfaces, through the interface offset table
ECUNewInterfaces ==
    /\ pc = "ifaces"
    /\ \E r \in {ecu_interfaces(Threaded(NoMask, pos), mem,
                                  ecu.base_addr + ecu.h.iface_tableoffset,
                                  ecu.h.iface_blockcount, 0)} :
           IF r.ok
           THEN /\ pc' = StepAfter(pc)
                /\ ecu' = [ecu EXCEPT !.ifaces = r.vals]
                /\ pos' = r.pos
                /\ log' = Append(log, "interfaces")
           ELSE /\ EcuPanic(r.err, r.pos)
    /\ UNCHANGED <<mem, img, header, out, pcan_vars, app_vars>>

\* all sub-interfaces, through the sub-interface offset table
ECUNewSubInterfaces ==
    /\ pc = "subifaces"
    /\ \E r \in {ecu_subinterfaces(Threaded(NoMask, pos), mem,
                                     ecu.base_addr + ecu.h.subiface_offset,
                                     ecu.h.subiface_count, 0)} :
           IF r.ok
           THEN /\ pc' = StepAfter(pc)
                /\ ecu' = [ecu EXCEPT !.subifaces = r.vals]
                /\ pos' = r.pos
                /\ log' = Append(log, "subinterfaces")
           ELSE /\ EcuPanic(r.err, r.pos)
    /\ UNCHANGED <<mem, img, header, out, pcan_vars, app_vars>>

\* the ECU value is put together, its two lists empty
ECUNewBuild ==
    /\ pc = "build"
    /\ \E r \in {ECU_build(ecu.base_addr, ecu.h, ecu.ifaces, ecu.subifaces, pos)} :
           IF r.ok
           THEN /\ pc' = StepAfter(pc)
                /\ ecu' = [ecu EXCEPT !.res = r.v]
                /\ pos' = r.pos
                /\ log' = Append(log, "build")
           ELSE /\ EcuPanic(r.err, r.pos)
    /\ UNCHANGED <<mem, img, header, out, pcan_vars, app_vars>>

\* res.create_diag_pool: the pool is read, every entry decoded, the list assigned
ECUNewDiagPool ==
    /\ pc = "diag"
    /\ \E wraps \in BOOLEAN :
          \E r \in {create_diag_pool(mem, ecu.res, wraps)} :
              IF r.ok
              THEN /\ pc' = StepAfter(pc)
                   /\ ecu' = [ecu EXCEPT !.res.diag_services = r.v.list,
                                         !.diag_pool = r.v.pool]
                   /\ pos' = r.pos
                   /\ log' = Append(log, "diag_services")
              ELSE /\ pc' = "panicked"
                   /\ ecu' = [ecu EXCEPT !.err = r.err, !.diag_pool = r.v.pool]
                   /\ pos' = r.pos
                   /\ log' = Append(log, "panic")
    /\ UNCHANGED <<mem, img, header, out, pcan_vars, app_vars>>

\* res.create_ecu_varients: the pool is read, every entry decoded, the list assigned
ECUNewVarients ==
    /\ pc = "var"
    /\ \E wraps \in BOOLEAN, zeroed_ok \in BOOLEAN :
          \E r \in {create_ecu_varients(mem, ecu.res, wraps, zeroed_ok)} :
              IF r.ok
              THEN /\ pc' = StepAfter(pc)
                   /\ ecu' = [ecu EXCEPT !.res.ecu_varient = r.v.list,
                                         !.var_pool = r.v.pool]
                   /\ pos' = r.pos
                   /\ log' = Append(log, "varients")
              ELSE /\ pc' = "panicked"
                   /\ ecu' = [ecu EXCEPT !.err = r.err, !.var_pool = r.v.pool]
                   /\ pos' = r.pos
                   /\ log' = Append(log, "panic")
    /\ UNCHANGED <<mem, img, header, out, pcan_vars, app_vars>>

\* the ECU is printed and ECU::new panics: its return type is `!`
ECUNewDone ==
    /\ pc = "print"
    /\ pc' = StepAfter(pc)
    /\ ecu' = [ecu EXCEPT !.err = "Done"]
    /\ log' = Append(log, "print")
    /\ UNCHANGED <<mem, pos, img, header, out, pcan_vars, app_vars>>

Next ==
    \/ CallECUInterface
    \/ CallECUInterfaceSubType
    \/ CallComParameter
    \/ CallFromString
    \/ CallRoundTrip
    \/ CallReadField
    \/ CallBlockNew
    \/ CallECUVarient
    \/ CallGetComParamValue
    \/ CallGetComParamValueRes
    \/ ECUNewHeader
    \/ ECUNewInterfaces
    \/ ECUNewSubInterfaces
    \/ ECUNewBuild
    \/ ECUNewDiagPool
    \/ ECUNewVarients
    \/ ECUNewDone

Spec == Init /\ [][Next]_vars

(***************************************************************************)
(* A client of PeakCanAPI: a bounded sequence of calls, the driver         *)
(* answering each of its calls with a status                               *)
(***************************************************************************)

\* most calls a client makes
MaxCalls == 3

\* the frame of test_pcan and a second, shorter one
FrameA == [id |-> 1924, dlc |-> 8, data |-> <<2, 17, 1, 85, 85, 85, 85, 85>>]
FrameB == [id |-> 291, dlc |-> 2, data |-> <<170, 187, 0, 0, 0, 0, 0, 0>>]

\* the frame lists a client sends
FrameLists == { <<>>, <<FrameA>>, <<FrameA, FrameB>>, <<FrameB, FrameA, FrameA>> }

\* what the driver answers: 0 or an error status
DriverStatuses == {0, 512}

\* bus speeds a client asks for: that of test_pcan, and one beyond 16 bits
BusSpeeds == {28, 65536 + 28}

PcanInit ==
    /\ img = Canon
    /\ mem = <<>>
    /\ header = Canon.header
    /\ pos = 0
    /\ pc = "idle"
    /\ ecu = NoEcu
    /\ out = NoCall
    /\ log = <<>>
    /\ dev = PeakCanAPI_new("PeakCan")
    /\ bus = <<>>
    /\ calls = <<>>
    /\ peer = NoPeer
    /\ cli = NoCli
    /\ odb = NoOdb

\* a call returns: the PeakCanAPI as the call left it, the driver's calls
\* appended to the bus, the call and its return value to the history
Returned(op, in, left) ==
    /\ dev' = left.self
    /\ bus' = bus \o left.driver
    /\ calls' = Append(calls, [op |-> op, in |-> in, r |-> left.r, bus_before |-> Len(bus)])
    /\ UNCHANGED <<cbf_vars, app_vars>>

PcanOpenDevice ==
    /\ Len(calls) < MaxCalls
    /\ Returned("open_device", <<>>, open_device(dev))

PcanOpenCanInterface ==
    /\ Len(calls) < MaxCalls
    /\ \E bus_speed \in BusSpeeds, status \in DriverStatuses :
          Returned("open_can_interface",
                   [bus_speed |-> bus_speed, is_ext_can |-> FALSE, status |-> status],
                   open_can_interface(dev, bus_speed, FALSE, status))

PcanCloseCanInterface ==
    /\ Len(calls) < MaxCalls
    /\ Returned("close_can_interface", <<>>, close_can_interface(dev))

PcanSendCanPackets ==
    /\ Len(calls) < MaxCalls
    /\ \E data \in FrameLists :
          \E statuses \in [1..Len(data) -> DriverStatuses] :
              Returned("send_can_packets",
                       [data |-> data, timeout_ms |-> 0, statuses |-> statuses],
                       send_can_packets(dev, data, 0, statuses))

PcanNext ==
    \/ PcanOpenDevice
    \/ PcanOpenCanInterface
    \/ PcanCloseCanInterface
    \/ PcanSendCanPackets

PcanSpec == PcanInit /\ [][PcanNext]_vars

(***************************************************************************)
(* A client that holds a PeakCanAPI and its clone_box, as start_uds does,  *)
(* and calls either of them; reads are answered turn by turn               *)
(***************************************************************************)

\* the messages the driver fills in on a read
MsgA == TPCANMsg_new(1924, "PCAN_MESSAGE_STANDARD", 8, <<2, 17, 1, 85, 85, 85, 85, 85>>)
MsgB == TPCANMsg_new(2032, "PCAN_MESSAGE_STANDARD", 2, <<81, 1, 0, 0, 0, 0, 0, 0>>)

\* what the driver answers on the turns the clock allows before the timeout
ReadAnswers ==
    { <<>>,
      <<[status |-> 0, msg |-> MsgA], [status |-> 0, msg |-> MsgB], [status |-> 0, msg |-> MsgA]>>,
      <<[status |-> 0, msg |-> MsgA], [status |-> 512, msg |-> MsgB], [status |-> 0, msg |-> MsgA]>>,
      <<[status |-> 512, msg |-> MsgA], [status |-> 0, msg |-> MsgB], [status |-> 0, msg |-> MsgA]>> }

\* the max_msgs a client asks for
ReadLimits == {0, 1, 2}

\* whom a call is made on: the PeakCanAPI or, once made, its clone
Callees == IF peer.some THEN {"dev", "peer"} ELSE {"dev"}
Callee(who) == IF who = "peer" THEN peer_view(peer, dev.peakcan_iface) ELSE dev

\* what a call returned, written in one shape whatever its type: a Result's Ok
\* or Err, the usize or the Vec<CanFrame> its Ok carries, the bool of
\* is_connected
RetUnit(r) ==
    [ok |-> r.ok, err_code |-> r.err_code, err_desc |-> r.err_desc,
     count |-> 0, frames |-> <<>>, yes |-> FALSE]
RetCount(r) == [RetUnit(r) EXCEPT !.count = IF r.ok THEN r.v ELSE 0]
RetFrames(r) == [RetUnit(r) EXCEPT !.frames = IF r.ok THEN r.v ELSE <<>>]
RetBool(b) == [RetUnit(ResOk(0)) EXCEPT !.yes = b]

\* a call on `who` returns: the callee keeps its own iface, the socket it left
\* behind the lock is the socket of both
ReturnedTo(who, op, in, left, ret) ==
    /\ dev' = IF who = "peer"
              THEN [dev EXCEPT !.peakcan_iface = left.self.peakcan_iface]
              ELSE left.self
    /\ peer' = IF who = "peer" THEN [peer EXCEPT !.iface = left.self.iface] ELSE peer
    /\ bus' = bus \o left.driver
    /\ calls' = Append(calls, [who |-> who, op |-> op, in |-> in, r |-> ret,
                               was |-> Callee(who), bus_before |-> Len(bus)])
    /\ UNCHANGED <<cbf_vars, cli, odb>>

\* start_uds: dev.clone_box()
SharedCloneBox ==
    /\ Len(calls) < MaxCalls
    /\ ~peer.some
    /\ peer' = clone_box(dev)
    /\ calls' = Append(calls, [who |-> "dev", op |-> "clone_box", in |-> <<>>,
                               r |-> RetUnit(ResOk(0)),
                               was |-> dev, bus_before |-> Len(bus)])
    /\ UNCHANGED <<cbf_vars, dev, bus, cli, odb>>

SharedOpenCanInterface ==
    /\ Len(calls) < MaxCalls
    /\ \E who \in Callees, status \in DriverStatuses :
          ReturnedTo(who, "open_can_interface",
                     [bus_speed |-> 28, is_ext_can |-> FALSE, status |-> status],
                     open_can_interface(Callee(who), 28, FALSE, status),
                     RetUnit(open_can_interface(Callee(who), 28, FALSE, status).r))

SharedCloseCanInterface ==
    /\ Len(calls) < MaxCalls
    /\ \E who \in Callees :
          ReturnedTo(who, "close_can_interface", <<>>, close_can_interface(Callee(who)),
                     RetUnit(close_can_interface(Callee(who)).r))

SharedIsConnected ==
    /\ Len(calls) < MaxCalls
    /\ \E who \in Callees :
          ReturnedTo(who, "is_connected", <<>>,
                     Left(Callee(who), is_connected(Callee(who)), <<>>),
                     RetBool(is_connected(Callee(who))))

SharedSendCanPackets ==
    /\ Len(calls) < MaxCalls
    /\ \E who \in Callees, status \in DriverStatuses :
          ReturnedTo(who, "send_can_packets",
                     [data |-> <<FrameA>>, timeout_ms |-> 0, statuses |-> <<status>>],
                     send_can_packets(Callee(who), <<FrameA>>, 0, <<status>>),
                     RetCount(send_can_packets(Callee(who), <<FrameA>>, 0, <<status>>).r))

SharedReadCanPackets ==
    /\ Len(calls) < MaxCalls
    /\ \E who \in Callees, max_msgs \in ReadLimits, answers \in ReadAnswers :
          ReturnedTo(who, "read_can_packets",
                     [timeout_ms |-> 2000, max_msgs |-> max_msgs, answers |-> answers],
                     read_can_packets(Callee(who), 2000, max_msgs, answers),
                     RetFrames(read_can_packets(Callee(who), 2000, max_msgs, answers).r))

SharedNext ==
    \/ SharedCloneBox
    \/ SharedOpenCanInterface
    \/ SharedCloseCanInterface
    \/ SharedIsConnected
    \/ SharedSendCanPackets
    \/ SharedReadCanPackets

SharedSpec == PcanInit /\ [][SharedNext]_vars

(***************************************************************************)
(* A run of the command line tool: main, from its arguments to its exit    *)
(***************************************************************************)

\* the values a user passes as --sid or --did
ArgTexts ==
    { <<"0", "x", "1", "1">>, <<"0", "x", "F", "1", "8", "C">>, <<"1", "1">>,
      <<"0", "x", "Z", "Z">>, <<"0", "x", "1">>, <<>> }

ArgOptions == {None} \cup {Some(t) : t \in ArgTexts}

ArgModes == {"CANTRACER", "UDS", "uds"}

CliInit ==
    /\ img = Canon
    /\ mem = <<>>
    /\ header = Canon.header
    /\ pos = 0
    /\ pc = "idle"
    /\ ecu = NoEcu
    /\ out = NoCall
    /\ log = <<>>
    /\ dev = PeakCanAPI_new("PeakCan")
    /\ bus = <<>>
    /\ calls = <<>>
    /\ peer = NoPeer
    /\ odb = NoOdb
    /\ cli \in {Args_parse(mode, SID, DID) : mode \in ArgModes, SID \in ArgOptions,
                                             DID \in ArgOptions}

CliStep(c) ==
    /\ cli' = c
    /\ UNCHANGED <<cbf_vars, pcan_vars, peer, odb>>

CliMainMode == cli.pc = "main" /\ CliStep(main_mode(cli))

CliMainSid == cli.pc = "sid" /\ CliStep(main_sid(cli))

CliMainDid == cli.pc = "did" /\ CliStep(main_did(cli))

CliMainToHex == cli.pc = "to_hex" /\ CliStep(main_to_hex(cli))

CliStartUds == cli.pc = "start_uds" /\ CliStep(start_uds(cli))

CliNext ==
    \/ CliMainMode
    \/ CliMainSid
    \/ CliMainDid
    \/ CliMainToHex
    \/ CliStartUds

CliSpec == CliInit /\ [][CliNext]_vars

(***************************************************************************)
(* The ODB window in the application's loop: view, then for each InitODB   *)
(* the button sends, update and view again                                 *)
(***************************************************************************)

\* what get_capabilities().supports_iso15765() answers for the server
Capabilities == {"Yes", "No", "NA"}

\* supported-PID lists a Service01 may hold, and the VINs a Service09 may read
PidLists == { <<>>, <<12>>, <<12, 13, 175>> }
Vins ==
    { [raw |-> "WDB1234", year |-> "2004", manufacture_name |-> "Mercedes-Benz",
       manufacture_location |-> "Sindelfingen"],
      [raw |-> "WVW5678", year |-> "2011", manufacture_name |-> "Volkswagen",
       manufacture_location |-> "Wolfsburg"] }

OdbInit ==
    /\ img = Canon
    /\ mem = <<>>
    /\ header = Canon.header
    /\ pos = 0
    /\ pc = "idle"
    /\ ecu = NoEcu
    /\ out = NoCall
    /\ log = <<>>
    /\ dev = PeakCanAPI_new("PeakCan")
    /\ bus = <<>>
    /\ calls = <<>>
    /\ peer = NoPeer
    /\ cli = NoCli
    /\ odb \in {[home |-> ODBHome_new(server), element |-> NoElement, turn |-> "view"] :
                   server \in Capabilities}

\* the window is drawn
OdbView ==
    /\ odb.turn = "view"
    /\ odb' = [odb EXCEPT !.element = view(odb.home), !.turn = "message"]
    /\ UNCHANGED <<cbf_vars, pcan_vars, peer, cli>>

\* the CAN button is pressed and its message handled
OdbUpdate ==
    /\ odb.turn = "message"
    /\ odb.element.can_btn.on_press = "InitODB"
    /\ \E ok1 \in BOOLEAN, s1 \in PidLists, ok9 \in BOOLEAN, okv \in BOOLEAN, vin \in Vins :
          odb' = [odb EXCEPT !.home = update(odb.home, ok1, s1, ok9, "Service09", okv, vin),
                             !.turn = "view"]
    /\ UNCHANGED <<cbf_vars, pcan_vars, peer, cli>>

OdbNext ==
    \/ OdbView
    \/ OdbUpdate

OdbSpec == OdbInit /\ [][OdbNext]_vars

(***************************************************************************)
(* Properties of the conditional reads and of block                        *)
(***************************************************************************)

\* bytes the cursor moves by when the bit of field f is set
WidthOf(f) ==
    CASE f.k = "i16" -> 2
      [] f.k = "i8" -> 1
      [] f.k = "u8" -> 1
      [] OTHER -> 4

\* what field f yields when its bit is clear
DefaultOf(f) == IF f.k \in {"string", "dump", "dump_of"} THEN None ELSE f.d

\* mask b is mask a with its n lowest bits consumed
ConsumedBy(a, b, n) == \A k \in 1..64 : b[k] = IF k + n <= 64 THEN a[k + n] ELSE 0

\* how many of the n lowest bits of a mask are set
SetBits(mask, n) == Cardinality({k \in 1..n : mask[k] = 1})

\* C1: every conditional field read consumes the lowest unconsumed mask bit; a
\* clear bit yields exactly the supplied default and leaves the cursor where it
\* was; a set bit moves the cursor by the scalar's width (1, 2 or 4 bytes), or by
\* exactly 4 bytes for a string or byte-block field whatever the payload's
\* length.  block::new is four such reads of 32-bit fields on one mask.
C1_ConditionalRead ==
    /\ out.op = "read_bitflag" =>
          /\ ConsumedBy(out.in.mask, out.r.mask, 1)
          /\ out.in.mask[1] = 0 =>
                /\ out.r.ok
                /\ out.r.v = DefaultOf(out.in.f)
                /\ out.r.pos = out.in.at
          /\ (out.in.mask[1] = 1 /\ out.r.ok) =>
                out.r.pos = out.in.at + WidthOf(out.in.f)
    /\ (out.op = "block" /\ out.r.ok) =>
          /\ ConsumedBy(out.in.mask, out.r.mask, 4)
          /\ out.r.pos = out.in.at + 4 * SetBits(out.in.mask, 4)
          /\ out.in.mask[1] = 0 => out.r.v.block_offset = out.in.offset
          /\ out.in.mask[2] = 0 => out.r.v.entry_count = 0
          /\ out.in.mask[3] = 0 => out.r.v.entry_size = 0
          /\ out.in.mask[4] = 0 => out.r.v.block_size = 0

\* C1 witness: a string field with its bit set was read, the text it points to
\* is longer than the 4 bytes the cursor moved by
C1_Witness ==
    /\ out.op = "read_bitflag"
    /\ out.in.f.k = "string"
    /\ out.in.mask[1] = 1
    /\ out.r.ok
    /\ Len(out.r.v.v) > 4
    /\ out.r.pos = out.in.at + 4

\* whether the n-th conditional field of the ECU record of image im is
\* present: the mask has 48 bits, the fields after them follow its top bit
EcuFieldPresent(im, n) ==
    IF n <= 48 THEN n \notin im.ecu_absent ELSE 48 \notin im.ecu_absent

\* the j-th raw field of the k-th block of the ECU record of image im as the
\* decoder meets it: what the file holds, or 0 when the field is absent
RawBlockField(im, k, j) ==
    IF EcuFieldPresent(im, 17 + 4 * (k - 1) + j) THEN BlockOf(im, k)[j] ELSE 0

\* the 8 blocks of ECU::new in the order they are decoded
DecodedBlocks(h) ==
    <<h.ecuvarient_block, h.diagjob_block, h.dtc_block, h.vc_domain_block,
      h.env_block, h.pres_block, h.info_block, h.unk_block>>

\* the header of ECU::new has been decoded from the record's first byte
HeaderDecoded == ecu.h # <<>> /\ ecu.entry_pos = ecu.base_addr

\* C2: each of the 8 blocks of a decoded ECU has block_offset = the raw offset
\* field of the record (0 when absent) + size_of_str_pool + STUB_HEADER_SIZE +
\* cff_header_size + 4, and its entry_count, entry_size and block_size are the
\* raw fields unbiased.
C2_BlockOffsetBias ==
    HeaderDecoded =>
        \A k \in 1..8 :
            /\ DecodedBlocks(ecu.h)[k].block_offset
                 = RawBlockField(img, k, 1) + header.size_of_str_pool
                   + STUB_HEADER_SIZE + header.cff_header_size + 4
            /\ DecodedBlocks(ecu.h)[k].entry_count = RawBlockField(img, k, 2)
            /\ DecodedBlocks(ecu.h)[k].entry_size = RawBlockField(img, k, 3)
            /\ DecodedBlocks(ecu.h)[k].block_size = RawBlockField(img, k, 4)

\* C2 witness: a header was decoded in which one block's offset field is absent
\* and another's is present, with nonzero counts that stay unbiased
C2_Witness ==
    /\ HeaderDecoded
    /\ ~EcuFieldPresent(img, 18)
    /\ ecu.h.ecuvarient_block.block_offset = data_offset_of(header)
    /\ ecu.h.diagjob_block.block_offset = Layout.diagpool
    /\ ecu.h.diagjob_block.entry_count = img.diag_n
    /\ img.diag_n > 0

(***************************************************************************)
(* Properties of ComParameter                                              *)
(***************************************************************************)

\* what the file of image im gives the communication parameter: its index,
\* its dump size (0 when the field is absent) and whether it has a dump
CpIndexOf(im) == IF 1 \in im.cp_absent THEN 0 ELSE im.cp_index
CpSizeOf(im) == IF 7 \in im.cp_absent THEN 0 ELSE im.cp_size
CpDumpPresent(im) == 8 \notin im.cp_absent

\* C3: a ComParameter that is constructed has 0 <= param_index < the length of
\* its parent's name table; when the index in the file is outside that range
\* (negative, or at or past the table's length, an empty table included)
\* construction fails and nothing is produced.
C3_ParamIndexInRange ==
    out.op = "ComParameter" =>
        /\ out.r.ok =>
              /\ out.r.v.param_index = CpIndexOf(img)
              /\ 0 <= out.r.v.param_index
              /\ out.r.v.param_index < Len(out.in.parent_iface.com_parameters)
        /\ (CpIndexOf(img) < 0
              \/ CpIndexOf(img) >= Len(out.in.parent_iface.com_parameters)) =>
              /\ ~out.r.ok
              /\ out.r.v = <<>>

\* C3 witness: a parameter whose dump is well-formed and whose index is
\* negative was decoded, and the name lookup failed
C3_Witness ==
    /\ out.op = "ComParameter"
    /\ CpIndexOf(img) < 0
    /\ CpSizeOf(img) = 4
    /\ ~out.r.ok
    /\ out.r.err = "index out of bounds"

\* C4: construction fails whenever the dump is not exactly 4 bytes (no dump, no
\* size field, or a size other than 4); a constructed ComParameter has
\* dump_size = 4 and a dump of 4 bytes.
C4_DumpIsFourBytes ==
    out.op = "ComParameter" =>
        /\ out.r.ok =>
              /\ out.r.v.dump_size = 4
              /\ Len(out.r.v.dump) = 4
        /\ (~CpDumpPresent(img) \/ CpSizeOf(img) # 4) => ~out.r.ok

\* C4 witness: a parameter with a 2-byte dump and an index inside the name
\* table was decoded, and construction failed on the size
C4_Witness ==
    /\ out.op = "ComParameter"
    /\ CpDumpPresent(img)
    /\ CpSizeOf(img) = 2
    /\ CpIndexOf(img) \in 0..(Len(out.in.parent_iface.com_parameters) - 1)
    /\ ~out.r.ok
    /\ out.r.err = "Parent has no matching key"

\* the signed 32-bit integer whose little-endian bytes are d
LittleEndianI32(d) ==
    d[1] + 256 * d[2] + 65536 * d[3]
    + 16777216 * (IF d[4] >= 128 THEN d[4] - 256 ELSE d[4])

\* C5: a constructed ComParameter's name is its parent's name at param_index,
\* and its value is the little-endian signed 32-bit integer of its 4 dump bytes
\* (negative when the last byte is 0x80 or more); index 1 in
\* [CP_BAUDRATE, CP_P2_TIMEOUT] with dump [0x32, 0, 0, 0] gives CP_P2_TIMEOUT, 50.
C5_NameAndValue ==
    (out.op = "ComParameter" /\ out.r.ok) =>
        /\ out.r.v.com_param_name
             = out.in.parent_iface.com_parameters[out.r.v.param_index + 1]
        /\ out.r.v.dump = SubSeq(img.cp_bytes, 1, 4)
        /\ out.r.v.com_param_value = LittleEndianI32(out.r.v.dump)
        /\ (/\ out.in.parent_iface.com_parameters
                 = <<ParamText.CP_BAUDRATE, ParamText.CP_P2_TIMEOUT>>
            /\ out.r.v.param_index = 1
            /\ out.r.v.dump = <<50, 0, 0, 0>>) =>
              /\ out.r.v.com_param_name = ParamText.CP_P2_TIMEOUT
              /\ out.r.v.com_param_value = 50

\* C5 witness: a ComParameter was constructed from a dump whose last byte is
\* 0x80 or more, and its value is negative
C5_Witness ==
    /\ out.op = "ComParameter"
    /\ out.r.ok
    /\ out.r.v.dump[4] >= 128
    /\ out.r.v.com_param_value < 0
    /\ out.r.v.com_param_name = ParamText.CP_P2_TIMEOUT

(***************************************************************************)
(* Properties of ECU::new and its pools                                    *)
(***************************************************************************)

\* the pool read `pool` is the one read block blk asks for: a seek to
\* block_offset, then entry_count * entry_size bytes of the source
PoolReadOf(pool, blk) ==
    /\ pool.at = blk.block_offset
    /\ pool.n = blk.entry_count * blk.entry_size
    /\ pool.ok =>
          /\ Len(pool.v) = blk.entry_count * blk.entry_size
          /\ \A k \in 1..Len(pool.v) : pool.v[k] = mem[blk.block_offset + k]
          /\ pool.pos = blk.block_offset + blk.entry_count * blk.entry_size
    /\ (pool.ok /\ blk.entry_count = 3 /\ blk.entry_size = 16) => Len(pool.v) = 48

\* C6: the pool of a block is read by one seek to block_offset and one read of
\* exactly entry_count * entry_size bytes, whatever the block's stored
\* block_size is (3 entries of 16 bytes: 48 bytes).
C6_PoolReadSize ==
    /\ ecu.diag_pool # <<>> => PoolReadOf(ecu.diag_pool, ecu.res.diagjob)
    /\ ecu.var_pool # <<>> => PoolReadOf(ecu.var_pool, ecu.res.ecuvarient)

\* C6 witness: the pool of a block of 3 entries of 16 bytes whose block_size
\* says 99 was read, and 48 bytes came back
C6_Witness ==
    /\ ecu.diag_pool # <<>>
    /\ ecu.diag_pool.ok
    /\ ecu.res.diagjob.entry_count = 3
    /\ ecu.res.diagjob.entry_size = 16
    /\ ecu.res.diagjob.block_size = 99
    /\ Len(ecu.diag_pool.v) = 48

\* C7: the decode of a well-formed ECU record, once it has gone through every
\* step, the variant pool included, returns the ECU to its caller.
C7_CompletedDecodeReturns ==
    (img = Canon /\ ecu.entry_pos = ecu.base_addr /\ log # <<>> /\ Last(log) = "print")
        => pc = "returned"

\* the steps of ECU::new in the order the claim gives them
StepOrder ==
    <<"header", "interfaces", "subinterfaces", "build", "diag_services",
      "varients", "print">>

\* the steps a decode has completed
StepsDone(l) == IF l # <<>> /\ Last(l) = "panic" THEN Front(l) ELSE l

IsPrefix(a, b) == Len(a) <= Len(b) /\ a = SubSeq(b, 1, Len(a))

Logged(step) == \E k \in 1..Len(log) : log[k] = step

\* C8: the steps of an ECU decode occur in the order header and blocks,
\* interfaces, sub-interfaces, (the ECU value), diagnostic-service pool, variant
\* pool; each list is assigned once, by its own step, and the diagnostic-service
\* list holds every entry of its pool before the variant pool is touched.
C8_DecodeOrder ==
    /\ IsPrefix(StepsDone(log), StepOrder)
    /\ ecu.res # <<>> =>
          /\ ~Logged("diag_services") => ecu.res.diag_services = <<>>
          /\ ~Logged("varients") => ecu.res.ecu_varient = <<>>
          /\ Logged("diag_services") =>
                /\ Len(ecu.res.diag_services) = ecu.res.diagjob.entry_count
                /\ \A k \in 1..Len(ecu.res.diag_services) :
                      ecu.res.diag_services[k].index = k - 1
          /\ Logged("varients") =>
                Len(ecu.res.ecu_varient) = ecu.res.ecuvarient.entry_count
    /\ ecu.var_pool # <<>> => Logged("diag_services")

\* C8 witness: a decode went through every step and both lists hold entries
C8_Witness ==
    /\ StepsDone(log) = StepOrder
    /\ Len(ecu.res.diag_services) = MaxEntries
    /\ Len(ecu.res.ecu_varient) = MaxEntries
    /\ Len(ecu.ifaces) = MaxIfaces
    /\ Len(ecu.subifaces) = MaxIfaces

KnownTexts == {ParamText[n] : n \in DOMAIN ParamText}

\* C10: from_string maps every text outside the known names (CP_FOOBAR, say)
\* to UNKNOWN and a known text to its own variant, without failing; and an
\* interface whose name table holds such a text decodes completely, with every
\* name of the table, known or not, at its position.
C10_UnknownNamesTolerated ==
    /\ out.op = "from_string" =>
          /\ out.r.ok
          /\ out.in.txt \notin KnownTexts => out.r.v = "UNKNOWN"
          /\ out.in.txt \in KnownTexts =>
                /\ out.r.v # "UNKNOWN"
                /\ ParamText[out.r.v] = out.in.txt
    /\ (/\ out.op = "ECUInterface"
        /\ out.in.base_addr = IfaceAt(0)
        /\ img.len = Layout.end
        /\ img.if_absent = {}) =>
          /\ out.r.ok
          /\ out.r.v.com_param_count = Len(img.names)
          /\ out.r.v.com_parameters = img.names

\* C10 witness: an interface was decoded whose second name, of three, is not a
\* known one, and it is kept between the other two
C10_Witness ==
    /\ out.op = "ECUInterface"
    /\ out.r.ok
    /\ out.r.v.com_parameters
         = <<ParamText.CP_BAUDRATE, TxtFoobar, ParamText.CP_P2_TIMEOUT>>
    /\ from_string(out.r.v.com_parameters[2]) = "UNKNOWN"
    /\ from_string(out.r.v.com_parameters[3]) = "CP_P2_TIMEOUT"

(***************************************************************************)
(* Properties of the sub-interface's parameter list                        *)
(***************************************************************************)

\* the positions of list ps whose ComParameter is named txt
NamedAt(ps, txt) == {i \in 1..Len(ps) : ps[i].com_param_name = txt}

\* the least element of a non-empty set of numbers
Least(S) == CHOOSE i \in S : \A j \in S : i <= j

\* the text of a looked-up name: the identifier of the variant
NameText(name) == IF name = "UNKNOWN" THEN <<85, 78, 75, 78, 79, 87, 78>> ELSE ParamText[name]

\* C11: a lookup on a sub-interface never fails.  get_com_param_value_res
\* returns true and leaves in result the value of the first ComParameter, in
\* list order, whose name is the text of the name looked up, when there is one,
\* and otherwise returns false and leaves 0; get_com_param_value returns
\* Some(v) exactly when the former returns true with result = v, else None.
C11_LookupByName ==
    /\ out.op = "get_com_param_value_res" =>
          /\ out.r.ok
          /\ NamedAt(out.in.self.com_params, NameText(out.in.name)) # {} =>
                /\ out.r.v.ret = TRUE
                /\ out.r.v.result
                     = out.in.self.com_params[
                           Least(NamedAt(out.in.self.com_params, NameText(out.in.name)))
                       ].com_param_value
          /\ NamedAt(out.in.self.com_params, NameText(out.in.name)) = {} =>
                /\ out.r.v.ret = FALSE
                /\ out.r.v.result = 0
          /\ get_com_param_value(out.in.self, out.in.name)
               = IF out.r.v.ret THEN Some(out.r.v.result) ELSE NoValue
    /\ out.op = "get_com_param_value" =>
          /\ out.r.ok
          /\ out.r.v.some <=> get_com_param_value_res(out.in.self, out.in.name, 7).ret
          /\ out.r.v.some =>
                out.r.v.v = get_com_param_value_res(out.in.self, out.in.name, 7).result
          /\ NamedAt(out.in.self.com_params, NameText(out.in.name)) = {} <=> ~out.r.v.some

\* C11 witness: a name that two ComParameters of the list carry was looked up
\* and the value of the first, which is 0, came back with true
C11_Witness ==
    /\ out.op = "get_com_param_value_res"
    /\ out.in.name = "CP_BAUDRATE"
    /\ Cardinality(NamedAt(out.in.self.com_params, ParamText.CP_BAUDRATE)) = 2
    /\ out.in.result = 7
    /\ out.r.v = [ret |-> TRUE, result |-> 0]

\* C12: once the sub-interfaces of an ECU are decoded, a sub-interface for
\* which the file holds a ComParameter (its sub_iface_index names that
\* sub-interface and it resolves against the parent interface's name table) has
\* a non-empty com_params list, and get_com_param finds that parameter by name.
C12_SubInterfaceOwnsParameters ==
    (/\ Logged("subinterfaces")
     /\ Len(ecu.ifaces) >= 1
     /\ Len(ecu.subifaces) >= 1
     /\ ComParameter_new(mem, Layout.cp, ecu.ifaces[1]).ok
     /\ ComParameter_new(mem, Layout.cp, ecu.ifaces[1]).v.sub_iface_index = 0) =>
        /\ ecu.subifaces[1].com_params # <<>>
        /\ get_com_param(ecu.subifaces[1],
                         ComParameter_new(mem, Layout.cp, ecu.ifaces[1]).v.com_param_name).some

\* C13: a read that runs past the end of the source aborts the decode at that
\* read, the read of the 32-bit word after the ECU mask included: every step a
\* decode completes belongs to a decode in which that word was read.
C13_FailedReadAborts ==
    \A k \in 1..Len(log) : log[k] # "panic" => (ecu.h # <<>> /\ ecu.h.skip_ok)

(***************************************************************************)
(* Properties of ECUVarient                                                *)
(***************************************************************************)

\* the signed 32-bit little-endian integer the source holds at address a
I32At(a) == LittleEndianI32(SubSeq(mem, a + 1, a + 4))

\* entries i of list t are the 32-bit integers the source holds from address a on
TableAt(t, a) == \A i \in 1..Len(t) : t[i] = I32At(a + 4 * (i - 1))

\* C14: a variant is decoded from a private copy of its own bytes
\* [base_addr, base_addr + block_size) and not with the shared cursor: the
\* shared cursor moves by the one slice read only; the name and the VC-domain
\* table are found at base_addr + their relative offset and inside the slice,
\* so siblings storing the same relative offsets get each their own table; a
\* table that lies outside the slice is not read from the file behind it.
C14_VariantDecodesOwnSlice ==
    out.op = "ECUVarient" =>
        /\ CanRead(mem, out.in.base_addr, out.in.block_size) =>
              out.r.pos = out.in.base_addr + out.in.block_size
        /\ out.r.ok =>
              /\ out.in.zeroed_ok
              /\ out.r.v.name = Some(<<86>>)
              /\ out.r.v.VCDomainsOffset = 32
              /\ Len(out.r.v.vc_domain_pool_offsets) = img.vc_n
              /\ TableAt(out.r.v.vc_domain_pool_offsets,
                         out.in.base_addr + out.r.v.VCDomainsOffset)
              /\ out.r.v.VCDomainsOffset + 4 * Len(out.r.v.vc_domain_pool_offsets)
                   <= out.in.block_size
        /\ (img.vc_n > 0 /\ out.in.block_size < VarSize) => ~out.r.ok
        /\ (/\ out.in.zeroed_ok
            /\ Len(mem) >= out.in.base_addr + VarSize
            /\ out.in.block_size = VarSize) => out.r.ok

\* C14 witness: the second variant record was decoded; it stores the relative
\* offset of its VC-domain table that the first record stores, and its table
\* is its own, not the first record's
C14_Witness ==
    /\ out.op = "ECUVarient"
    /\ out.in.base_addr = VarAt(1)
    /\ out.r.ok
    /\ I32At(VarAt(0) + 24) = out.r.v.VCDomainsOffset
    /\ Len(out.r.v.vc_domain_pool_offsets) = 2
    /\ out.r.v.vc_domain_pool_offsets = <<I32At(VarAt(1) + 32), I32At(VarAt(1) + 36)>>
    /\ out.r.v.vc_domain_pool_offsets # <<I32At(VarAt(0) + 32), I32At(VarAt(0) + 36)>>
    /\ out.r.pos = VarAt(1) + VarSize

(***************************************************************************)
(* Properties of PeakCanAPI                                                *)
(***************************************************************************)

\* the driver calls made by the n-th call of the history
DriverCallsOf(n) ==
    SubSeq(bus, calls[n].bus_before + 1,
           IF n < Len(calls) THEN calls[n + 1].bus_before ELSE Len(bus))

\* before the n-th call, open_device and after it open_can_interface returned Ok
OpenedBefore(n) ==
    \E i \in 1..(n - 1), j \in 1..(n - 1) :
        /\ i < j
        /\ calls[i].op = "open_device" /\ calls[i].r.ok
        /\ calls[j].op = "open_can_interface" /\ calls[j].r.ok

\* the first position of a status other than 0
FirstFailure(statuses) ==
    Least({i \in 1..Len(statuses) : statuses[i] # 0})

\* driver call w is the write of frame f on the channel open_can_interface uses
WriteOf(w, f) ==
    /\ w.fn = "CAN_Write"
    /\ w.Channel = 81
    /\ w.MessageBuffer.ID = f.id
    /\ w.MessageBuffer.LEN = f.dlc
    /\ w.MessageBuffer.DATA = f.data

\* C15: once open_device and then open_can_interface have returned Ok,
\* send_can_packets writes the frames of its list to the driver in list order;
\* when every write answers status 0 all of them are written and Ok(number of
\* frames) is returned; a write that answers another status is the last one
\* made and the call returns error code 3.
C15_SendWritesInOrder ==
    \A n \in 1..Len(calls) :
        (calls[n].op = "send_can_packets" /\ OpenedBefore(n)) =>
            /\ \A i \in 1..Len(DriverCallsOf(n)) :
                  WriteOf(DriverCallsOf(n)[i], calls[n].in.data[i])
            /\ (\A i \in 1..Len(calls[n].in.data) : calls[n].in.statuses[i] = 0) =>
                  /\ Len(DriverCallsOf(n)) = Len(calls[n].in.data)
                  /\ calls[n].r.ok
                  /\ calls[n].r.v = Len(calls[n].in.data)
            /\ (\E i \in 1..Len(calls[n].in.data) : calls[n].in.statuses[i] # 0) =>
                  /\ Len(DriverCallsOf(n)) = FirstFailure(calls[n].in.statuses)
                  /\ ~calls[n].r.ok
                  /\ calls[n].r.err_code = 3

\* C15 witness: after open_device and open_can_interface returned Ok, three
\* frames were sent, the second write failed, and two writes reached the driver
C15_Witness ==
    /\ Len(calls) = 3
    /\ OpenedBefore(3)
    /\ calls[3].op = "send_can_packets"
    /\ Len(calls[3].in.data) = 3
    /\ calls[3].in.statuses = <<0, 512, 0>>
    /\ Len(DriverCallsOf(3)) = 2
    /\ calls[3].r.err_code = 3

(***************************************************************************)
(* Properties of the ECU header                                            *)
(***************************************************************************)

\* the conditional fields ECU::new reads, in order
EcuLayoutFields ==
    ECUIdentityFields \o ECUFlagFields
    \o Concat([k \in 1..8 |-> BlockFields]) \o <<I32(0)>>

\* the 48 mask bits the ECU record of the source carries in its first 6 bytes
EcuLoadedBits == BitsOfBytes(SubSeq(mem, ecu.base_addr + 1, ecu.base_addr + 6))

\* the fields, of those a loaded bit can gate, whose bit is set and whose
\* width is w
EcuGatedFields(w) ==
    {n \in 1..Len(EcuLoadedBits) :
        n <= Len(EcuLayoutFields) /\ EcuLoadedBits[n] = 1 /\ WidthOf(EcuLayoutFields[n]) = w}

\* C16: a record decoder reads no more conditional fields than the mask bits
\* it loaded, and gates each by a loaded bit.  For the ECU record, which loads
\* 48 bits: once the header is decoded the cursor has moved past the 6 mask
\* bytes, the skipped word, and the fields whose bit among the 48 is set, and
\* past nothing else.
C16_FieldsWithinLoadedMask ==
    (pc = "ifaces" /\ HeaderDecoded /\ ecu.h.skip_ok) =>
        pos = ecu.base_addr + 6 + 4
              + 4 * Cardinality(EcuGatedFields(4)) + 2 * Cardinality(EcuGatedFields(2))

(***************************************************************************)
(* Properties of the interface's name table                                *)
(***************************************************************************)

\* the null-terminated text the source holds at address a
CStringAt(a) ==
    SubSeq(mem, a + 1,
           CHOOSE z \in a..(Len(mem) - 1) :
               /\ mem[z + 1] = 0
               /\ \A y \in a..(z - 1) : mem[y + 1] # 0)

\* the address of the name table of a decoded interface
NameTableOf(iface) == iface.base_addr + iface.com_param_list_offset

\* C17: a decoded interface has exactly com_param_count names, in table order;
\* the i-th (from 0) is the null-terminated text at T + p_i, where T =
\* base_addr + com_param_list_offset and p_i is the 32-bit relative pointer at
\* T + 4 * i; a count of 0, or an absent count, gives the empty list.  A
\* well-formed interface decodes, with the count its record holds.
C17_NameTable ==
    out.op = "ECUInterface" =>
        /\ out.r.ok =>
              /\ out.r.v.com_param_count >= 0
              /\ Len(out.r.v.com_parameters) = out.r.v.com_param_count
              /\ \A i \in 1..Len(out.r.v.com_parameters) :
                    out.r.v.com_parameters[i]
                      = CStringAt(NameTableOf(out.r.v)
                                  + I32At(NameTableOf(out.r.v) + 4 * (i - 1)))
              /\ out.r.v.com_param_count = 0 => out.r.v.com_parameters = <<>>
              /\ (out.in.base_addr = IfaceAt(0) /\ 6 \in img.if_absent) =>
                    out.r.v.com_parameters = <<>>
        /\ (/\ out.in.base_addr = IfaceAt(0)
            /\ img.len = Layout.end
            /\ img.if_absent \cap {6, 7} = {}) =>
              /\ out.r.ok
              /\ out.r.v.com_param_count = Len(img.names)
              /\ NameTableOf(out.r.v) = Layout.names

\* C17 witness: an interface with three names was decoded; its third pointer
\* is not a multiple of its second, and the third name is the text it leads to
C17_Witness ==
    /\ out.op = "ECUInterface"
    /\ out.r.ok
    /\ out.r.v.com_param_count = 3
    /\ I32At(Layout.names + 4) = 12 + 11 + 1
    /\ I32At(Layout.names + 8) = 12 + 11 + 1 + 9 + 1
    /\ out.r.v.com_parameters[3] = CStringAt(Layout.names + I32At(Layout.names + 8))
    /\ out.r.v.com_parameters[3] = ParamText.CP_P2_TIMEOUT

(***************************************************************************)
(* Properties of the pools' entries                                        *)
(***************************************************************************)

\* the offset field of the i-th entry (from 0) of the pool of block blk: the
\* entry starts at pool position i * entry_size
PoolEntryOffset(blk, i) == I32At(blk.block_offset + i * blk.entry_size)

\* the source holds the pool of blk and a child record behind each entry
PoolInSource(blk) ==
    /\ blk.entry_count >= 0
    /\ blk.entry_size >= 4
    /\ CanRead(mem, blk.block_offset, blk.entry_count * blk.entry_size)
    /\ \A i \in 0..(blk.entry_count - 1) :
          CanRead(mem, blk.block_offset + PoolEntryOffset(blk, i), 1)

\* list holds one child per entry of the pool of blk, in pool order, the i-th
\* decoded at block_offset + the offset field of the i-th entry
ChildrenOf(list, blk) ==
    /\ Len(list) = blk.entry_count
    /\ \A i \in 0..(Len(list) - 1) :
          list[i + 1].base_addr = blk.block_offset + PoolEntryOffset(blk, i)

\* C18: for the diagnostic-service pool and for the variant pool, the i-th
\* child is decoded at block_offset + offset_i, offset_i being the offset field
\* of the pool entry that starts at i * entry_size; the list has entry_count
\* children, in pool order.
C18_PoolEntryAddresses ==
    /\ (ecu.diag_pool # <<>> /\ PoolInSource(ecu.res.diagjob)) =>
          ChildrenOf(ecu.res.diag_services, ecu.res.diagjob)
    /\ (Logged("varients") /\ PoolInSource(ecu.res.ecuvarient)) =>
          ChildrenOf(ecu.res.ecu_varient, ecu.res.ecuvarient)

(***************************************************************************)
(* Properties of the ECU's blocks and of the variant's tables              *)
(***************************************************************************)

\* the k-th block descriptor of the ECU record of image im, as the block it
\* decodes to
RecordBlock(im, k) ==
    [block_offset |-> RawBlockField(im, k, 1) + data_offset_of(im.header),
     entry_count |-> RawBlockField(im, k, 2),
     entry_size |-> RawBlockField(im, k, 3),
     block_size |-> RawBlockField(im, k, 4)]

\* the pools of an ECU in the order of the layout: variant, diag-job, DTC,
\* env, VC-domain, presentation, info, reserved
PoolsOf(res) ==
    <<res.ecuvarient, res.diagjob, res.dtc, res.env, res.vcdomain,
      res.presentations, res.info, res.unk_block>>

\* C19: the 8 block descriptors of an ECU record are decoded one after the
\* other and the k-th of the record is stored as the k-th pool of the list
\* variant, diag-job, DTC, env, VC-domain, presentation, info, reserved: the
\* 4th is the env pool and the 5th the VC-domain pool.
C19_BlockOrder ==
    (ecu.res # <<>> /\ HeaderDecoded) =>
        \A k \in 1..8 : PoolsOf(ecu.res)[k] = RecordBlock(img, k)

\* C20: a decoded variant's diagnostic-service table has diag_services_count
\* entries, read one after the other from slice offset diag_services_offset,
\* and its VC-domain table has VCDomainsCount entries, read from slice offset
\* VCDomainsOffset.
C20_TableLengths ==
    (out.op = "ECUVarient" /\ out.r.ok) =>
        /\ Len(out.r.v.vc_domain_pool_offsets) = out.r.v.VCDomainsCount
        /\ TableAt(out.r.v.vc_domain_pool_offsets,
                   out.in.base_addr + out.r.v.VCDomainsOffset)
        /\ Len(out.r.v.diag_services_pool_offsets) = out.r.v.diag_services_count
        /\ TableAt(out.r.v.diag_services_pool_offsets,
                   out.in.base_addr + out.r.v.diag_services_offset)

(***************************************************************************)
(* Properties of PeakCanAPI's connection state and of its reads            *)
(***************************************************************************)

\* between call n and call m no open_can_interface returned Ok
NoOpenBetween(n, m) ==
    \A k \in (n + 1)..(m - 1) :
        ~(calls[k].op = "open_can_interface" /\ calls[k].r.ok)

\* C21: after close_can_interface has returned Ok on a PeakCanAPI, and until a
\* later open_can_interface returns Ok, is_connected() answers false and
\* send_can_packets and read_can_packets fail with error code 2.
C21_ClosedIsNotConnected ==
    \A n \in 1..Len(calls), m \in 1..Len(calls) :
        ( /\ n < m
          /\ calls[n].op = "close_can_interface" /\ calls[n].r.ok
          /\ calls[m].who = calls[n].who
          /\ NoOpenBetween(n, m) ) =>
            /\ calls[m].op = "is_connected" => ~calls[m].r.yes
            /\ calls[m].op \in {"send_can_packets", "read_can_packets"} =>
                  ~calls[m].r.ok /\ calls[m].r.err_code = 2

\* C22: when open_can_interface returns an error because CAN_Initialize
\* answered a status other than 0, no socket is stored, is_connected() is false
\* on the PeakCanAPI and on its clone, and a send_can_packets that follows fails
\* with error code 2 and makes no driver call.
C22_FailedOpenStoresNothing ==
    \A n \in 1..Len(calls) :
        (calls[n].op = "open_can_interface" /\ ~calls[n].r.ok) =>
            /\ n = Len(calls) =>
                  /\ ~dev.peakcan_iface.some
                  /\ ~is_connected(dev)
                  /\ peer.some => ~is_connected(Callee("peer"))
            /\ (n < Len(calls) /\ calls[n + 1].op = "send_can_packets") =>
                  /\ ~calls[n + 1].r.ok
                  /\ calls[n + 1].r.err_code = 2
                  /\ DriverCallsOf(n + 1) = <<>>

\* C23: read_can_packets on an open interface returns at most max_msgs frames,
\* also for max_msgs = 0; once max_msgs frames are collected it reads the driver
\* no further; a read whose status is not 0 makes the call return an error
\* that carries that status and none of the frames collected before.
C23_ReadReturnsAtMostMaxMsgs ==
    \A n \in 1..Len(calls) :
        (calls[n].op = "read_can_packets" /\ is_connected(calls[n].was)) =>
            /\ calls[n].r.ok => Len(calls[n].r.frames) <= calls[n].in.max_msgs
            /\ Len(DriverCallsOf(n)) <= calls[n].in.max_msgs
            /\ (\E i \in 1..Len(DriverCallsOf(n)) : DriverCallsOf(n)[i].status # 0) =>
                  /\ ~calls[n].r.ok
                  /\ calls[n].r.err_code = DriverCallsOf(n)[Len(DriverCallsOf(n))].status
                  /\ calls[n].r.frames = <<>>

(***************************************************************************)
(* Properties of the ECU header's absent fields                            *)
(***************************************************************************)

\* the mask bit of the n-th conditional field of the ECU record is clear
EcuBitClear(n) == EcuLoadedBits[n] = 0

\* the numeric fields of lines 536-552 with the mask bit of each: the four
\* interface numbers and the six flags
EcuZeroDefaulted(h) ==
    << <<5, h.iface_blockcount>>, <<6, h.iface_tableoffset>>,
       <<7, h.subiface_count>>, <<8, h.subiface_offset>>,
       <<12, h.ign_required>>, <<13, h.unk2>>, <<14, h.unk_blockcount>>,
       <<15, h.unk_blockoffset>>, <<16, h.ecu_sgml_src>>, <<17, h.unk6_rel_offset>> >>

\* the same fields of the ECU value once it is built
EcuZeroDefaultedIn(res) ==
    << <<5, res.interface_block_count>>, <<6, res.interface_table_offset>>,
       <<7, res.sub_interface_count>>, <<8, res.sub_interface_offset>>,
       <<12, res.ignition_required>>, <<13, res.unk2>>, <<14, res.unk_block_count>>,
       <<15, res.unk_block_offset>>, <<16, res.ecu_sgml_src>>,
       <<17, res.unk6_relative_offset>> >>

\* C24: in ECU header decoding a clear mask bit for the ECU name, the XML
\* version or the ECU class name aborts the decode: no ECU value is built.  A
\* clear bit for unk_str7 or unk_str8 gives the built ECU the texts "N/A" and
\* "Unknown"; a clear bit for the name or the description index gives -1; a
\* clear bit for any other numeric field of the header gives 0.
C24_AbsentHeaderFields ==
    HeaderDecoded =>
        /\ (EcuBitClear(1) \/ EcuBitClear(4) \/ EcuBitClear(9)) =>
              /\ ecu.res = <<>>
              /\ ~Logged("build")
              /\ pc \in {"ifaces", "subifaces", "build", "panicked"}
        /\ EcuBitClear(2) => ecu.h.ecuname_ctf = -1
        /\ EcuBitClear(3) => ecu.h.ecudesc_ctf = -1
        /\ \A k \in 1..Len(EcuZeroDefaulted(ecu.h)) :
              EcuBitClear(EcuZeroDefaulted(ecu.h)[k][1]) => EcuZeroDefaulted(ecu.h)[k][2] = 0
        /\ ecu.res # <<>> =>
              /\ EcuBitClear(10) => ecu.res.unk_str7 = <<78, 47, 65>>
              /\ EcuBitClear(11) => ecu.res.unk_str8 = <<85, 110, 107, 110, 111, 119, 110>>
              /\ EcuBitClear(2) => ecu.res.ecuname_ctf = -1
              /\ EcuBitClear(3) => ecu.res.ecudesc_ctf = -1
              /\ \A k \in 1..Len(EcuZeroDefaultedIn(ecu.res)) :
                    EcuBitClear(EcuZeroDefaultedIn(ecu.res)[k][1]) =>
                        EcuZeroDefaultedIn(ecu.res)[k][2] = 0

\* C24 witness: a header was decoded whose bit for the ECU class name alone is
\* clear among the three, both loops ran, and the struct literal panicked on
\* the unwrap
C24_Witness ==
    /\ HeaderDecoded
    /\ EcuBitClear(9) /\ ~EcuBitClear(1) /\ ~EcuBitClear(4)
    /\ Logged("subinterfaces")
    /\ pc = "panicked"
    /\ ecu.err = "unwrap on None"
    /\ ecu.res = <<>>

(***************************************************************************)
(* Properties of ParamName's two conversions                               *)
(***************************************************************************)

\* C26: for every variant p of ParamName other than UNKNOWN,
\* from_string(p.to_string()) is p; and from_string is injective on the 29
\* names it knows: no other known name gives the variant p's text gives, and
\* no known name gives UNKNOWN.
C26_RoundTrip ==
    (out.op = "round_trip" /\ out.in.name # "UNKNOWN") =>
        /\ out.r.v = out.in.name
        /\ out.in.txt \in KnownTexts
        /\ \A q \in DOMAIN ParamText :
              /\ from_string(ParamText[q]) # "UNKNOWN"
              /\ ParamText[q] # out.in.txt => from_string(ParamText[q]) # out.r.v

\* C26 witness: the last variant before UNKNOWN was written as the 23
\* characters of its identifier and read back as itself
C26_Witness ==
    /\ out.op = "round_trip"
    /\ out.in.name = "CP_P2_EXT_TIMEOUT_7F_21"
    /\ Len(out.in.txt) = 23
    /\ out.r.v = "CP_P2_EXT_TIMEOUT_7F_21"

(***************************************************************************)
(* Properties of the command line tool                                     *)
(***************************************************************************)

\* t is "0x" followed by hexadecimal digits only
HexText(t) ==
    /\ Len(t) >= 2
    /\ SubSeq(t, 1, 2) = <<"0", "x">>
    /\ \A k \in 3..Len(t) :
          t[k] \in {"0", "1", "2", "3", "4", "5", "6", "7", "8", "9",
                    "a", "b", "c", "d", "e", "f", "A", "B", "C", "D", "E", "F"}

\* main printed the error print_error builds for this type and value
PrintedErrorFor(type, value) ==
    \E k \in 1..Len(cli.stdout) : cli.stdout[k] = print_error(type, value)

\* C25: in UDS mode, when the SID is missing or is not a 0x-prefixed string of
\* hexadecimal digits, or a DID is supplied that is not one, the tool prints
\* the error of that option, converts nothing to bytes and starts no UDS
\* session; a session is started only for a SID that is valid hex and a DID
\* that is valid hex or absent.
C25_InvalidHexStartsNothing ==
    cli.mode = "UDS" =>
        /\ (~cli.SID.some \/ ~HexText(cli.SID.v) \/ (cli.DID.some /\ ~HexText(cli.DID.v))) =>
              /\ ~cli.sid_bytes.some
              /\ ~cli.did_bytes.some
              /\ ~cli.session.some
              /\ cli.pc = "exit" =>
                    /\ ~cli.SID.some => PrintedErrorFor(1, <<>>)
                    /\ (cli.SID.some /\ ~HexText(cli.SID.v)) => PrintedErrorFor(1, cli.SID.v)
                    /\ (cli.SID.some /\ cli.DID.some /\ ~HexText(cli.DID.v)) =>
                          PrintedErrorFor(2, cli.DID.v)
        /\ cli.session.some =>
              /\ cli.SID.some /\ HexText(cli.SID.v)
              /\ cli.DID.some => HexText(cli.DID.v)

(***************************************************************************)
(* Properties of ODBHome                                                   *)
(***************************************************************************)

\* the element on the screen holds this Text
Shows(literal, arg) ==
    \E k \in 1..Len(odb.element.texts) : odb.element.texts[k] = Text_new(literal, arg)

\* the element on the screen holds a VIN Text
ShowsVin ==
    \E k \in 1..Len(odb.element.texts) : odb.element.texts[k][1] = "VIN: {}"

\* C27: once the window is drawn, after any sequence of InitODB updates, it
\* shows "Service 09: Yes" exactly when s9 is set and "Service 01: Yes" exactly
\* when s1 is set, and it shows a VIN only if s9 is set.
C27_ViewReportsServices ==
    odb.turn = "message" =>
        /\ Shows("Service 09: {}", "Yes") <=> odb.home.s9.some
        /\ Shows("Service 01: {}", "Yes") <=> odb.home.s1.some
        /\ ShowsVin => odb.home.s9.some

=============================================================================
